---- MODULE Spec2Model ----
(***************************************************************************)
(* Model of bffless/compare-coverage: the comparison engine (compare.ts),  *)
(* the format detector (parsers/index.ts) and the coverage parsers.        *)
(*                                                                         *)
(* Numbers.  A percentage is a JavaScript double in the source.  Here it   *)
(* is an integer number of hundredths of a percentage point: 80.0 is 8000, *)
(* 100 is 10000, the 0.1 noise floor of compareFiles is 10 and a threshold *)
(* of 1.0 is 100.  covered / total * 100 is (covered * 10000) \div total.  *)
(* A quotient that is not an integer (the mean of the four deltas) is kept *)
(* exact as a fraction [num, den].                                         *)
(*                                                                         *)
(* Optional values.  "not computed yet" / "not part of this run" is the    *)
(* empty sequence None and a present value v is the one-element sequence   *)
(* Some(v).                                                                *)
(***************************************************************************)
EXTENDS Integers, Sequences, FiniteSets, TLC

VARIABLES
    current,     \* compareCoverage's argument current   (Some(NormalizedCoverage))
    baseline,    \* compareCoverage's argument baseline  (Some(NormalizedCoverage))
    threshold,   \* compareCoverage's argument threshold (hundredths of a point)
    comparison,  \* compareCoverage's return value, None before the call
    content,     \* detectFormat's argument content
    filename,    \* detectFormat's argument filename
    detected,    \* detectFormat's outcome, None before the call
    report,      \* a parser's input document
    coverage,    \* the parser's outcome, None before the call
    run,         \* run()'s inputs, position and effects on the runner
    upload,      \* uploadResults' requests and its UploadResult
    pr           \* the pull request: GitContext.prNumber, GITHUB_TOKEN, comments

vars == <<current, baseline, threshold, comparison,
          content, filename, detected, report, coverage, run, upload, pr>>

None == <<>>
Some(v) == <<v>>

\* the text of an attribute that is present but is not a number (hits="abc"):
\* parseInt and parseFloat give NaN for it.  It occurs only where the code
\* reads parseInt(attr, 10) || 0 or parseFloat(attr) || 0.
Malformed == <<0, 0>>

-----------------------------------------------------------------------------
(* Bounds of the model *)

\* current summary metrics range over MaxPctSteps + 1 consecutive whole points
MaxPctSteps == 3
\* longest files list of a NormalizedCoverage handed to compareCoverage
MaxFiles == 2
\* longest content handed to detectFormat, in tokens
MaxContentLen == 3
\* most line elements, and most method elements, of a Cobertura class
MaxLines == 2
\* most class elements of a Cobertura package
MaxClasses == 2
\* most package elements of a Cobertura report
MaxPackages == 2
\* most entries of an Istanbul location map or hit-count map
MaxMapKeys == 2
\* highest line number of an Istanbul statement location
MaxLine == 3
\* highest found or hit count of an LCOV record
MaxFound == 2
\* most counter elements of a JaCoCo report or sourcefile
MaxCounters == 2

-----------------------------------------------------------------------------
(* types.ts: CoverageMetric, CoverageSummary, FileCoverage *)

MetricNames == <<"statements", "branches", "functions", "lines">>

MetricSet == {MetricNames[i] : i \in 1..Len(MetricNames)}

\* every parser's calculateMetric: total > 0 ? (covered / total) * 100 : 100
calculateMetric(covered, total) ==
    [total |-> total,
     covered |-> covered,
     percentage |-> IF total > 0 THEN (covered * 10000) \div total ELSE 10000]

-----------------------------------------------------------------------------
(* compare.ts *)

\* compareMetric with the tolerance taken inclusively (delta <= -threshold)
compareMetric_Inclusive(metric, base, cur, thr) ==
    LET delta == cur.percentage - base.percentage
        status == IF delta > 0 THEN "improved"
                  ELSE IF delta <= -thr THEN "regressed"
                  ELSE "unchanged"
    IN  [metric |-> metric, baseline |-> base, current |-> cur,
         delta |-> delta, status |-> status]

\* compareMetric counting an equal percentage as an improvement
compareMetric_EqualImproved(metric, base, cur, thr) ==
    LET delta == cur.percentage - base.percentage
        status == IF delta >= 0 THEN "improved"
                  ELSE IF delta < -thr THEN "regressed"
                  ELSE "unchanged"
    IN  [metric |-> metric, baseline |-> base, current |-> cur,
         delta |-> delta, status |-> status]

\* compareMetric applying the tolerance to improvements too
compareMetric_TolerantImproved(metric, base, cur, thr) ==
    LET delta == cur.percentage - base.percentage
        status == IF delta > thr THEN "improved"
                  ELSE IF delta < -thr THEN "regressed"
                  ELSE "unchanged"
    IN  [metric |-> metric, baseline |-> base, current |-> cur,
         delta |-> delta, status |-> status]

compareMetric(metric, base, cur, thr) ==
    LET delta == cur.percentage - base.percentage
        status == IF delta > 0 THEN "improved"
                  ELSE IF delta < -thr THEN "regressed"
                  ELSE "unchanged"
    IN  [metric |-> metric, baseline |-> base, current |-> cur,
         delta |-> delta, status |-> status]

\* keys of new Map(files.map(f => [f.path, f])): the distinct paths, in the
\* order of their first occurrence
RECURSIVE MapKeys(_)
MapKeys(files) ==
    IF files = <<>> THEN <<>>
    ELSE LET front == MapKeys(SubSeq(files, 1, Len(files) - 1))
             p == files[Len(files)].path
         IN  IF \E i \in 1..Len(front) : front[i] = p THEN front ELSE Append(front, p)

\* Map.has(path)
MapHas(files, p) == \E i \in 1..Len(files) : files[i].path = p

\* Map.get(path): a later entry of the same path overwrites an earlier one
MapGet(files, p) ==
    LET idx == {i \in 1..Len(files) : files[i].path = p}
    IN  files[CHOOSE i \in idx : \A j \in idx : j <= i]

\* new Set([...baselineFiles.keys(), ...currentFiles.keys()]) in iteration order
RECURSIVE AppendNew(_, _)
AppendNew(seen, more) ==
    IF more = <<>> THEN seen
    ELSE LET p == Head(more)
         IN  AppendNew(IF \E i \in 1..Len(seen) : seen[i] = p THEN seen
                       ELSE Append(seen, p), Tail(more))

AllPaths(cur, base) == AppendNew(MapKeys(base.files), MapKeys(cur.files))

\* FileEntry with the noise floor taken inclusively (|delta| >= 0.1)
FileEntry_FloorInclusive(cur, base, thr, p) ==
    IF ~MapHas(base.files, p) \/ ~MapHas(cur.files, p) THEN <<>>
    ELSE LET linesDelta == MapGet(cur.files, p).lines.percentage
                           - MapGet(base.files, p).lines.percentage
             absDelta == IF linesDelta < 0 THEN -linesDelta ELSE linesDelta
             status == IF linesDelta > 0 THEN "improved"
                       ELSE IF linesDelta < -thr THEN "regressed"
                       ELSE "unchanged"
         IN  IF absDelta >= 10
             THEN <<[path |-> p, linesDelta |-> linesDelta, status |-> status]>>
             ELSE <<>>

\* the loop body of compareFiles for one path: zero or one FileComparison
FileEntry(cur, base, thr, p) ==
    IF ~MapHas(base.files, p) \/ ~MapHas(cur.files, p) THEN <<>>
    ELSE LET linesDelta == MapGet(cur.files, p).lines.percentage
                           - MapGet(base.files, p).lines.percentage
             absDelta == IF linesDelta < 0 THEN -linesDelta ELSE linesDelta
             status == IF linesDelta > 0 THEN "improved"
                       ELSE IF linesDelta < -thr THEN "regressed"
                       ELSE "unchanged"
         IN  IF absDelta > 10
             THEN <<[path |-> p, linesDelta |-> linesDelta, status |-> status]>>
             ELSE <<>>

RECURSIVE FileEntries(_, _, _, _)
FileEntries(cur, base, thr, paths) ==
    IF paths = <<>> THEN <<>>
    ELSE FileEntry(cur, base, thr, Head(paths)) \o FileEntries(cur, base, thr, Tail(paths))

\* comparisons.sort((a, b) => a.linesDelta - b.linesDelta): Array.prototype.sort
\* is stable, entries of equal delta keep their order
SortInsert(sorted, x) ==
    LET k == Cardinality({i \in 1..Len(sorted) : sorted[i].linesDelta <= x.linesDelta})
    IN  SubSeq(sorted, 1, k) \o <<x>> \o SubSeq(sorted, k + 1, Len(sorted))

RECURSIVE SortByDelta(_)
SortByDelta(s) ==
    IF s = <<>> THEN <<>>
    ELSE SortInsert(SortByDelta(SubSeq(s, 1, Len(s) - 1)), s[Len(s)])

compareFiles(cur, base, thr) ==
    SortByDelta(FileEntries(cur, base, thr, AllPaths(cur, base)))

RECURSIVE SumDelta(_)
SumDelta(metrics) ==
    IF metrics = <<>> THEN 0 ELSE Head(metrics).delta + SumDelta(Tail(metrics))

\* calculateOverallDelta averaging only the metrics that changed
calculateOverallDelta_ChangedOnly(metrics) ==
    LET changed == {i \in 1..Len(metrics) : metrics[i].delta # 0}
    IN  IF changed = {} THEN [num |-> 0, den |-> 1]
        ELSE [num |-> SumDelta(metrics), den |-> Cardinality(changed)]

\* sum / metrics.length, kept as the fraction num / den
calculateOverallDelta(metrics) ==
    IF Len(metrics) = 0 THEN [num |-> 0, den |-> 1]
    ELSE [num |-> SumDelta(metrics), den |-> Len(metrics)]

\* determineOverallStatus looking for an improvement first
determineOverallStatus_ImprovedFirst(metrics, thr) ==
    IF \E i \in 1..Len(metrics) : metrics[i].status = "improved" THEN "improved"
    ELSE IF \E i \in 1..Len(metrics) : metrics[i].status = "regressed" THEN "regressed"
    ELSE "unchanged"

\* determineOverallStatus without the test for an improvement
determineOverallStatus_RegressedOnly(metrics, thr) ==
    IF \E i \in 1..Len(metrics) : metrics[i].status = "regressed" THEN "regressed"
    ELSE "unchanged"

determineOverallStatus(metrics, thr) ==
    IF \E i \in 1..Len(metrics) : metrics[i].status = "regressed" THEN "regressed"
    ELSE IF \E i \in 1..Len(metrics) : metrics[i].status = "improved" THEN "improved"
    ELSE "unchanged"

compareCoverage(cur, base, thr) ==
    LET metrics == [i \in 1..Len(MetricNames) |->
                       compareMetric(MetricNames[i], base.summary[MetricNames[i]],
                                     cur.summary[MetricNames[i]], thr)]
    IN  [metrics |-> metrics,
         files |-> compareFiles(cur, base, thr),
         overallStatus |-> determineOverallStatus(metrics, thr),
         overallDelta |-> calculateOverallDelta(metrics)]

-----------------------------------------------------------------------------
(* Inputs of compareCoverage *)

\* inputs.ts: threshold is parseFloat of the input, rejected unless 0 <= t <= 100
Thresholds == {0, 100, 300}

\* baseline summary metrics: 80% twice, from different totals
BaselineMetrics == {calculateMetric(80, 100), calculateMetric(40, 50)}

\* current summary metrics: 78%, 79%, ... of 100
CurrentMetrics == {calculateMetric(78 + k, 100) : k \in 0..MaxPctSteps}

\* lines metrics of files: 80.00, 80.10 and 80.11
FileMetrics == {calculateMetric(c, 10000) : c \in {8000, 8010, 8011}}

Paths == {"src/a.ts", "src/b.ts"}

FileOf(p, m) == [path |-> p, statements |-> m, branches |-> m, functions |-> m, lines |-> m]

FileEntriesIn == {FileOf(p, m) : p \in Paths, m \in FileMetrics}

FileLists == UNION {[1..n -> FileEntriesIn] : n \in 0..MaxFiles}

FlatSummary == [m \in MetricSet |-> calculateMetric(80, 100)]

IdleCompare ==
    /\ current = None /\ baseline = None /\ threshold = 0 /\ comparison = None

IdleDetect ==
    /\ content = None /\ filename = None /\ detected = None

IdleParse ==
    /\ report = None /\ coverage = None

IdleRun ==
    /\ run = None /\ upload = None /\ pr = None

\* summaries vary, no files
InitCompareSummaries ==
    /\ current \in {Some([format |-> "lcov", summary |-> s, files |-> <<>>]) :
                       s \in [MetricSet -> CurrentMetrics]}
    /\ baseline \in {Some([format |-> "lcov", summary |-> s, files |-> <<>>]) :
                       s \in [MetricSet -> BaselineMetrics]}

\* files vary, summaries equal
InitCompareFiles ==
    /\ current \in {Some([format |-> "lcov", summary |-> FlatSummary, files |-> f]) :
                       f \in FileLists}
    /\ baseline \in {Some([format |-> "lcov", summary |-> FlatSummary, files |-> f]) :
                       f \in FileLists}

\* the coverage is compared with itself
InitCompareSame ==
    /\ current \in {Some([format |-> "lcov", summary |-> s, files |-> f]) :
                       s \in [MetricSet -> CurrentMetrics],
                       f \in {<<>>, <<FileOf("src/a.ts", calculateMetric(8010, 10000))>>,
                              <<FileOf("src/a.ts", calculateMetric(8000, 10000)),
                                FileOf("src/a.ts", calculateMetric(8011, 10000))>>}}
    /\ baseline = current

InitCompare ==
    /\ InitCompareSummaries \/ InitCompareFiles \/ InitCompareSame
    /\ threshold \in Thresholds
    /\ comparison = None
    /\ IdleDetect /\ IdleParse /\ IdleRun

CompareCoverage ==
    /\ current # None /\ baseline # None /\ comparison = None
    /\ comparison' = Some(compareCoverage(current[1], baseline[1], threshold))
    /\ UNCHANGED <<current, baseline, threshold, content, filename, detected,
                   report, coverage, run, upload, pr>>

NextCompare == CompareCoverage

SpecCompare == InitCompare /\ [][NextCompare]_vars

-----------------------------------------------------------------------------
(* parsers/index.ts: detectFormat                                          *)
(*                                                                         *)
(* A content is a record [text, json].  text is the string as a sequence   *)
(* of tokens: the substrings detectFormat searches for, a generic element  *)
(* start "<tag", whitespace " " and other characters "text".  json is what *)
(* JSON.parse(content) yields: valid = FALSE when it throws a SyntaxError, *)
(* else the parsed value.  A parsed value is [t, items]: its JSON type and *)
(* the values of its own enumerable properties in Object.keys order (the   *)
(* members of an object, the elements of an array, the characters of a     *)
(* string).  A member value is [t, keys, truthy].                          *)
(***************************************************************************)

Markers == {"<?xml", "<coverage", "line-rate", "clover", "<project",
            "<report", "<counter", "SF:", "LF:", "DA:"}

Tokens == Markers \cup {"<tag", " ", "text"}

\* the tokens whose first character is '<'
LtTokens == {"<?xml", "<coverage", "<project", "<report", "<counter", "<tag"}

\* String.prototype.includes, for a searched substring that is a token
Includes(c, sub) == \E i \in 1..Len(c.text) : c.text[i] = sub

\* String.prototype.trim on the token sequence
RECURSIVE TrimStart(_)
TrimStart(text) ==
    IF text # <<>> /\ Head(text) = " " THEN TrimStart(Tail(text)) ELSE text

RECURSIVE TrimEnd(_)
TrimEnd(text) ==
    IF text # <<>> /\ text[Len(text)] = " "
    THEN TrimEnd(SubSeq(text, 1, Len(text) - 1)) ELSE text

Trim(text) == TrimEnd(TrimStart(text))

\* String.prototype.startsWith('<')
StartsWithLt(text) == text # <<>> /\ Head(text) \in LtTokens

\* filename.toLowerCase(): a filename is <<stem, extension>>
ToLowerCase(f) ==
    [i \in 1..Len(f) |-> CASE f[i] = ".INFO" -> ".info"
                           [] f[i] = ".JSON" -> ".json"
                           [] OTHER -> f[i]]

\* ext.endsWith(suffix), for a suffix that is an extension
EndsWith(f, suffix) == f # <<>> /\ f[Len(f)] = suffix

\* typeof v
TypeOf(v) == IF v.t \in {"null", "array", "object"} THEN "object" ELSE v.t

\* the try block of detectFormat: TRUE when it reaches return 'istanbul'.
\* JSON.parse throws on invalid JSON and Object.keys throws on null; both are
\* caught by the empty catch.
IsIstanbulJson(c) ==
    IF ~c.json.valid THEN FALSE
    ELSE IF c.json.value.t = "null" THEN FALSE
    ELSE LET keys == c.json.value.items
         IN  IF Len(keys) > 0
             THEN LET firstValue == keys[1]
                  IN  /\ firstValue.truthy
                      /\ TypeOf(firstValue) = "object"
                      /\ ("statementMap" \in firstValue.keys \/ "s" \in firstValue.keys)
             ELSE FALSE

\* the XML tests applied to every content
IsXmlContent_Always(c) == TRUE

\* content.includes('<?xml') || content.trim().startsWith('<')
IsXmlContent(c) == Includes(c, "<?xml") \/ StartsWithLt(Trim(c.text))

\* detectFormat trying the Clover test before the Cobertura test
detectFormat_CloverFirst(c, f) ==
    LET ext == ToLowerCase(f)
    IN  IF EndsWith(ext, ".info") \/ EndsWith(ext, ".lcov") THEN "lcov"
        ELSE IF EndsWith(ext, ".json") /\ IsIstanbulJson(c) THEN "istanbul"
        ELSE IF IsXmlContent(c)
                /\ ((Includes(c, "<coverage") /\ Includes(c, "clover"))
                    \/ Includes(c, "<project"))
             THEN "clover"
        ELSE IF IsXmlContent(c) /\ Includes(c, "<coverage") /\ Includes(c, "line-rate")
             THEN "cobertura"
        ELSE IF IsXmlContent(c) /\ Includes(c, "<report") /\ Includes(c, "<counter")
             THEN "jacoco"
        ELSE IF Includes(c, "SF:") /\ (Includes(c, "LF:") \/ Includes(c, "DA:"))
             THEN "lcov"
        ELSE "throw"

\* detectFormat without the catch: a SyntaxError of JSON.parse or a TypeError
\* of Object.keys(null) ends the detection of a .json file
detectFormat_NoCatch(c, f) ==
    LET ext == ToLowerCase(f)
    IN  IF EndsWith(ext, ".info") \/ EndsWith(ext, ".lcov") THEN "lcov"
        ELSE IF EndsWith(ext, ".json") /\ (~c.json.valid \/ c.json.value.t = "null")
             THEN "throw"
        ELSE IF EndsWith(ext, ".json") /\ IsIstanbulJson(c) THEN "istanbul"
        ELSE IF IsXmlContent(c) /\ Includes(c, "<coverage") /\ Includes(c, "line-rate")
             THEN "cobertura"
        ELSE IF IsXmlContent(c)
                /\ ((Includes(c, "<coverage") /\ Includes(c, "clover"))
                    \/ Includes(c, "<project"))
             THEN "clover"
        ELSE IF IsXmlContent(c) /\ Includes(c, "<report") /\ Includes(c, "<counter")
             THEN "jacoco"
        ELSE IF Includes(c, "SF:") /\ (Includes(c, "LF:") \/ Includes(c, "DA:"))
             THEN "lcov"
        ELSE "throw"

\* detectFormat applying the Istanbul test to a file of any name
detectFormat_AnyJson(c, f) ==
    LET ext == ToLowerCase(f)
    IN  IF EndsWith(ext, ".info") \/ EndsWith(ext, ".lcov") THEN "lcov"
        ELSE IF IsIstanbulJson(c) THEN "istanbul"
        ELSE IF IsXmlContent(c) /\ Includes(c, "<coverage") /\ Includes(c, "line-rate")
             THEN "cobertura"
        ELSE IF IsXmlContent(c)
                /\ ((Includes(c, "<coverage") /\ Includes(c, "clover"))
                    \/ Includes(c, "<project"))
             THEN "clover"
        ELSE IF IsXmlContent(c) /\ Includes(c, "<report") /\ Includes(c, "<counter")
             THEN "jacoco"
        ELSE IF Includes(c, "SF:") /\ (Includes(c, "LF:") \/ Includes(c, "DA:"))
             THEN "lcov"
        ELSE "throw"

detectFormat(c, f) ==
    LET ext == ToLowerCase(f)
    IN  IF EndsWith(ext, ".info") \/ EndsWith(ext, ".lcov") THEN "lcov"
        ELSE IF EndsWith(ext, ".json") /\ IsIstanbulJson(c) THEN "istanbul"
        ELSE IF IsXmlContent(c) /\ Includes(c, "<coverage") /\ Includes(c, "line-rate")
             THEN "cobertura"
        ELSE IF IsXmlContent(c)
                /\ ((Includes(c, "<coverage") /\ Includes(c, "clover"))
                    \/ Includes(c, "<project"))
             THEN "clover"
        ELSE IF IsXmlContent(c) /\ Includes(c, "<report") /\ Includes(c, "<counter")
             THEN "jacoco"
        ELSE IF Includes(c, "SF:") /\ (Includes(c, "LF:") \/ Includes(c, "DA:"))
             THEN "lcov"
        ELSE "throw"

-----------------------------------------------------------------------------
(* The detect methods of the five parsers in the registry *)

\* LcovParser.detect
LcovParserDetect(c, f) ==
    LET ext == ToLowerCase(f)
    IN  IF EndsWith(ext, ".info") \/ EndsWith(ext, ".lcov") THEN TRUE
        ELSE Includes(c, "SF:") /\ (Includes(c, "LF:") \/ Includes(c, "DA:"))

\* IstanbulParser.detect: JSON.parse and Object.keys(null) throw into the
\* catch, which returns false
IstanbulParserDetect(c, f) ==
    IF ~EndsWith(ToLowerCase(f), ".json") THEN FALSE
    ELSE IF ~c.json.valid THEN FALSE
    ELSE IF c.json.value.t = "null" THEN FALSE
    ELSE LET keys == c.json.value.items
         IN  IF Len(keys) > 0
             THEN LET firstValue == keys[1]
                  IN  /\ firstValue.truthy
                      /\ TypeOf(firstValue) = "object"
                      /\ ("statementMap" \in firstValue.keys \/ "s" \in firstValue.keys)
             ELSE FALSE

\* the test the three XML parsers begin with: a file not named .xml must
\* contain '<?xml' or start with '<' after trimming
NotXml(c, f) ==
    /\ ~EndsWith(ToLowerCase(f), ".xml")
    /\ ~Includes(c, "<?xml") /\ ~StartsWithLt(Trim(c.text))

\* CoberturaParser.detect
CoberturaParserDetect(c, f) ==
    IF NotXml(c, f) THEN FALSE
    ELSE Includes(c, "<coverage") /\ Includes(c, "line-rate")

\* CloverParser.detect
CloverParserDetect(c, f) ==
    IF NotXml(c, f) THEN FALSE
    ELSE (Includes(c, "<coverage") /\ Includes(c, "clover")) \/ Includes(c, "<project")

\* JacocoParser.detect
JacocoParserDetect(c, f) ==
    IF NotXml(c, f) THEN FALSE
    ELSE Includes(c, "<report") /\ Includes(c, "<counter")

\* parsers[format].detect(content, filename)
ParsersDetect(format, c, f) ==
    CASE format = "lcov" -> LcovParserDetect(c, f)
      [] format = "istanbul" -> IstanbulParserDetect(c, f)
      [] format = "cobertura" -> CoberturaParserDetect(c, f)
      [] format = "clover" -> CloverParserDetect(c, f)
      [] format = "jacoco" -> JacocoParserDetect(c, f)

-----------------------------------------------------------------------------
(* Inputs of detectFormat *)

Filenames == {<<"coverage", e>> :
                 e \in {".info", ".INFO", ".lcov", ".json", ".xml", ".txt"}}

SeqsUpTo(S, n) == UNION {[1..k -> S] : k \in 0..n}

NotJson == [valid |-> FALSE, value |-> [t |-> "null", items |-> <<>>]]

\* member values: null, 0, 1, "a", [], and objects by their key set
JsonMembers ==
    {[t |-> "null", keys |-> {}, truthy |-> FALSE],
     [t |-> "number", keys |-> {}, truthy |-> FALSE],
     [t |-> "number", keys |-> {}, truthy |-> TRUE],
     [t |-> "string", keys |-> {"0", "length"}, truthy |-> TRUE],
     [t |-> "array", keys |-> {"length"}, truthy |-> TRUE]}
    \cup {[t |-> "object", keys |-> k, truthy |-> TRUE] :
             k \in {{}, {"path"}, {"statementMap", "s", "path"}, {"statementMap"}, {"s"}}}

\* parsed documents: null, a number, a string, arrays and objects of at most
\* one member
JsonValues ==
    {[t |-> "null", items |-> <<>>],
     [t |-> "number", items |-> <<>>],
     [t |-> "string", items |-> <<[t |-> "string", keys |-> {"0", "length"}, truthy |-> TRUE]>>]}
    \cup {[t |-> ty, items |-> m] : ty \in {"array", "object"},
                                    m \in SeqsUpTo(JsonMembers, 1)}

\* text that is not JSON: every token sequence
InitDetectText ==
    content \in {Some([text |-> t, json |-> NotJson]) : t \in SeqsUpTo(Tokens, MaxContentLen)}

\* text that is JSON: it does not start with '<'; the markers can occur in
\* the strings and keys of an array or object, never in a scalar
InitDetectJson ==
    content \in {Some([text |-> <<"text">> \o t, json |-> [valid |-> TRUE, value |-> v]]) :
                    t \in SeqsUpTo(Markers, MaxContentLen - 1),
                    v \in {w \in JsonValues : w.t \notin {"null", "number"}}}
                \cup {Some([text |-> <<"text">>, json |-> [valid |-> TRUE, value |-> v]]) :
                         v \in {w \in JsonValues : w.t \in {"null", "number"}}}

InitDetect ==
    /\ InitDetectText \/ InitDetectJson
    /\ filename \in {Some(f) : f \in Filenames}
    /\ detected = None
    /\ IdleCompare /\ IdleParse /\ IdleRun

DetectFormat ==
    /\ content # None /\ filename # None /\ detected = None
    /\ detected' = Some(detectFormat(content[1], filename[1]))
    /\ UNCHANGED <<current, baseline, threshold, comparison, content, filename,
                   report, coverage, run, upload, pr>>

NextDetect == DetectFormat

SpecDetect == InitDetect /\ [][NextDetect]_vars

-----------------------------------------------------------------------------
(* parsers/cobertura.ts                                                    *)
(*                                                                         *)
(* The parser's input is modelled after XMLParser.parse: syntaxOk = FALSE  *)
(* when fast-xml-parser throws, else the element tree.  An element that    *)
(* may occur once or several times (package, class, method, line) is the   *)
(* sequence of its occurrences, which is what the Array.isArray            *)
(* normalisation of the code makes of it; a container element (packages,   *)
(* classes, methods, lines) that is parsed to an object without any such   *)
(* child is Some(<<>>).  An attribute is None when absent and Some(n) when *)
(* its text is the number n.  A count attribute holds n itself; a rate     *)
(* attribute                                                               *)
(* (line-rate, branch-rate) holds the rate in 1/10000, so that rate * 100  *)
(* is n hundredths of a point.  A condition-coverage attribute is          *)
(* Some([match, covered, total]): whether /\((\d+)\/(\d+)\)/ matches and   *)
(* its two groups.                                                         *)
(***************************************************************************)

Ok(v) == [ok |-> TRUE, error |-> "", value |-> Some(v)]
Err(e) == [ok |-> FALSE, error |-> e, value |-> None]

\* parseInt(attr || '0', 10)
ParseIntDefaultZero(attr) == IF attr = None THEN 0 ELSE attr[1]

\* parseInt(attr, 10) || 0 and parseFloat(attr) || 0
ParseOrZero(attr) == IF attr = None \/ attr = Malformed THEN 0 ELSE attr[1]

RECURSIVE SumField(_, _, _)
SumField(files, metric, field) ==
    IF files = <<>> THEN 0
    ELSE Head(files)[metric][field] + SumField(Tail(files), metric, field)

\* CoberturaParser.aggregateMetric
aggregateMetric(files, metric) ==
    LET total == SumField(files, metric, "total")
        covered == SumField(files, metric, "covered")
    IN  [total |-> total,
         covered |-> covered,
         percentage |-> IF total > 0 THEN (covered * 10000) \div total ELSE 10000]

\* the methods loop of parseClass: [total, covered]
RECURSIVE CountMethods(_)
CountMethods(methods) ==
    IF methods = <<>> THEN [total |-> 0, covered |-> 0]
    ELSE LET rest == CountMethods(Tail(methods))
             methodLineRate == ParseOrZero(Head(methods).lineRate)
         IN  [total |-> rest.total + 1,
              covered |-> rest.covered + (IF methodLineRate > 0 THEN 1 ELSE 0)]

\* variant: condition-coverage is read on every line, branch="true" or not
RECURSIVE CountLines_AnyBranch(_)
CountLines_AnyBranch(lines) ==
    IF lines = <<>>
    THEN [totalLines |-> 0, coveredLines |-> 0, totalBranches |-> 0, coveredBranches |-> 0]
    ELSE LET rest == CountLines_AnyBranch(Tail(lines))
             line == Head(lines)
             hits == ParseOrZero(line.hits)
             branchMatch == /\ line.conditionCoverage # None
                            /\ line.conditionCoverage[1].match
         IN  [totalLines |-> rest.totalLines + 1,
              coveredLines |-> rest.coveredLines + (IF hits > 0 THEN 1 ELSE 0),
              totalBranches |-> rest.totalBranches
                  + (IF branchMatch THEN line.conditionCoverage[1].total ELSE 0),
              coveredBranches |-> rest.coveredBranches
                  + (IF branchMatch THEN line.conditionCoverage[1].covered ELSE 0)]

\* the lines loop of parseClass
RECURSIVE CountLines(_)
CountLines(lines) ==
    IF lines = <<>>
    THEN [totalLines |-> 0, coveredLines |-> 0, totalBranches |-> 0, coveredBranches |-> 0]
    ELSE LET rest == CountLines(Tail(lines))
             line == Head(lines)
             hits == ParseOrZero(line.hits)
             branchMatch == /\ line.branch = Some("true")
                            /\ line.conditionCoverage # None
                            /\ line.conditionCoverage[1].match
         IN  [totalLines |-> rest.totalLines + 1,
              coveredLines |-> rest.coveredLines + (IF hits > 0 THEN 1 ELSE 0),
              totalBranches |-> rest.totalBranches
                  + (IF branchMatch THEN line.conditionCoverage[1].total ELSE 0),
              coveredBranches |-> rest.coveredBranches
                  + (IF branchMatch THEN line.conditionCoverage[1].covered ELSE 0)]

parseClass(cls) ==
    LET m == IF cls.methods # None THEN CountMethods(cls.methods[1])
             ELSE [total |-> 0, covered |-> 0]
        l == IF cls.lines # None THEN CountLines(cls.lines[1])
             ELSE [totalLines |-> 0, coveredLines |-> 0,
                   totalBranches |-> 0, coveredBranches |-> 0]
    IN  [path |-> cls.filename,
         statements |-> calculateMetric(l.coveredLines, l.totalLines),
         branches |-> calculateMetric(l.coveredBranches, l.totalBranches),
         functions |-> calculateMetric(m.covered, m.total),
         lines |-> calculateMetric(l.coveredLines, l.totalLines)]

\* CoberturaParser.calculateSummary
coberturaSummary(cov, files) ==
    LET linesCovered == ParseIntDefaultZero(cov.linesCovered)
        linesValid == ParseIntDefaultZero(cov.linesValid)
        branchesCovered == ParseIntDefaultZero(cov.branchesCovered)
        branchesValid == ParseIntDefaultZero(cov.branchesValid)
        lineRate == ParseOrZero(cov.lineRate)
        branchRate == ParseOrZero(cov.branchRate)
    IN  IF linesValid > 0
        THEN [statements |-> [total |-> linesValid, covered |-> linesCovered,
                              percentage |-> lineRate],
              branches |-> [total |-> branchesValid, covered |-> branchesCovered,
                            percentage |-> branchRate],
              functions |-> aggregateMetric(files, "functions"),
              lines |-> [total |-> linesValid, covered |-> linesCovered,
                         percentage |-> lineRate]]
        ELSE [statements |-> aggregateMetric(files, "statements"),
              branches |-> aggregateMetric(files, "branches"),
              functions |-> aggregateMetric(files, "functions"),
              lines |-> aggregateMetric(files, "lines")]

\* a container without its child element is read as [undefined], and the
\* first property read of undefined throws a TypeError
CoberturaTypeError(cov) ==
    /\ cov.packages # None
    /\ \/ cov.packages[1] = <<>>
       \/ \E i \in 1..Len(cov.packages[1]) :
              /\ cov.packages[1][i].classes # None
              /\ cov.packages[1][i].classes[1] = <<>>
       \/ \E i \in 1..Len(cov.packages[1]) :
              /\ cov.packages[1][i].classes # None
              /\ \E j \in 1..Len(cov.packages[1][i].classes[1]) :
                     LET cls == cov.packages[1][i].classes[1][j]
                     IN  \/ cls.methods # None /\ cls.methods[1] = <<>>
                         \/ cls.lines # None /\ cls.lines[1] = <<>>

\* the packages and classes loops of CoberturaParser.parse
RECURSIVE ClassFiles(_)
ClassFiles(classes) ==
    IF classes = <<>> THEN <<>>
    ELSE <<parseClass(Head(classes))>> \o ClassFiles(Tail(classes))

RECURSIVE PackageFiles(_)
PackageFiles(packages) ==
    IF packages = <<>> THEN <<>>
    ELSE (IF Head(packages).classes # None THEN ClassFiles(Head(packages).classes[1])
          ELSE <<>>) \o PackageFiles(Tail(packages))

\* CoberturaParser.parse
coberturaParse(data) ==
    IF ~data.syntaxOk THEN Err("Failed to parse Cobertura XML")
    ELSE IF data.coverage = None
    THEN Err("Invalid Cobertura format: missing coverage element")
    ELSE IF CoberturaTypeError(data.coverage[1]) THEN Err("TypeError")
    ELSE LET cov == data.coverage[1]
             files == IF cov.packages # None THEN PackageFiles(cov.packages[1]) ELSE <<>>
         IN  Ok([format |-> "cobertura",
                 summary |-> coberturaSummary(cov, files),
                 files |-> files])

-----------------------------------------------------------------------------
(* Inputs of CoberturaParser.parse *)

NoRootAttributes ==
    [lineRate |-> None, branchRate |-> None, linesCovered |-> None,
     linesValid |-> None, branchesCovered |-> None, branchesValid |-> None]

\* lines-valid="4" lines-covered="3" line-rate="0.75" branches-valid="2"
\* branches-covered="1" branch-rate="0.5"
TypicalRootAttributes ==
    [lineRate |-> Some(7500), branchRate |-> Some(5000), linesCovered |-> Some(3),
     linesValid |-> Some(4), branchesCovered |-> Some(1), branchesValid |-> Some(2)]

RootAttributes ==
    [lineRate : {None, Some(7500), Some(5000)},
     branchRate : {None, Some(0), Some(5000)},
     linesCovered : {None, Some(0), Some(3), Some(5)},
     linesValid : {None, Some(0), Some(4)},
     branchesCovered : {None, Some(0), Some(1)},
     branchesValid : {None, Some(0), Some(2)}]

CoberturaLines ==
    [hits : {Some(0), Some(2)},
     branch : {None},
     conditionCoverage : {None}]
    \cup [hits : {Some(0), Some(2)},
          branch : {Some("true"), Some("false")},
          conditionCoverage : {Some([match |-> TRUE, covered |-> 1, total |-> 2])}]
    \cup [hits : {Some(2)},
          branch : {Some("true")},
          conditionCoverage : {None, Some([match |-> FALSE, covered |-> 0, total |-> 0])}]
    \cup [hits : {Malformed}, branch : {None}, conditionCoverage : {None}]

CoberturaMethods == [lineRate : {Some(0), Some(5000), Malformed}]

\* an element list that is absent, or present with 1..n children
Children(S, n) == {None} \cup {Some(q) : q \in SeqsUpTo(S, n) \ {<<>>}}

CoberturaClasses ==
    [filename : {"src/a.py", "src/b.py"},
     methods : Children(CoberturaMethods, MaxLines),
     lines : Children(CoberturaLines, MaxLines)]

\* three classes: two lines and a method; one branch line with 1 of 2
\* conditions; a second class of the first file, without lines
ClassA ==
    [filename |-> "src/a.py",
     methods |-> Some(<<[lineRate |-> Some(5000)]>>),
     lines |-> Some(<<[hits |-> Some(2), branch |-> None, conditionCoverage |-> None],
                      [hits |-> Some(0), branch |-> None, conditionCoverage |-> None]>>)]

ClassB ==
    [filename |-> "src/b.py",
     methods |-> None,
     lines |-> Some(<<[hits |-> Some(1), branch |-> Some("true"),
                       conditionCoverage |-> Some([match |-> TRUE, covered |-> 1,
                                                   total |-> 2])]>>)]

ClassC == [filename |-> "src/a.py", methods |-> None, lines |-> None]

CoberturaPackages ==
    [classes : {None, Some(<<>>)}
               \cup {Some(q) : q \in SeqsUpTo({ClassA, ClassB}, MaxClasses) \ {<<>>}}]

CoberturaDoc(attrs, packages) ==
    [parser |-> "cobertura",
     data |-> [syntaxOk |-> TRUE,
               coverage |-> Some([lineRate |-> attrs.lineRate,
                                  branchRate |-> attrs.branchRate,
                                  linesCovered |-> attrs.linesCovered,
                                  linesValid |-> attrs.linesValid,
                                  branchesCovered |-> attrs.branchesCovered,
                                  branchesValid |-> attrs.branchesValid,
                                  packages |-> packages])]]

\* the root attributes vary over four fixed class structures
CoberturaRootDocs ==
    {CoberturaDoc(a, p) :
        a \in RootAttributes,
        p \in {None,
               Some(<<[classes |-> Some(<<ClassA>>)]>>),
               Some(<<[classes |-> Some(<<ClassA, ClassB>>)]>>),
               Some(<<[classes |-> Some(<<ClassA>>)], [classes |-> Some(<<ClassC>>)]>>)}}

\* one class varies
CoberturaClassDocs ==
    {CoberturaDoc(a, Some(<<[classes |-> Some(<<c>>)]>>)) :
        a \in {NoRootAttributes, TypicalRootAttributes}, c \in CoberturaClasses}

\* the package and class structure varies
CoberturaStructureDocs ==
    {CoberturaDoc(a, p) :
        a \in {NoRootAttributes, TypicalRootAttributes},
        p \in {None} \cup {Some(q) : q \in SeqsUpTo(CoberturaPackages, MaxPackages)}}

\* documents fast-xml-parser rejects, and documents without a coverage root
CoberturaBrokenDocs ==
    {[parser |-> "cobertura", data |-> [syntaxOk |-> FALSE, coverage |-> None]],
     [parser |-> "cobertura", data |-> [syntaxOk |-> TRUE, coverage |-> None]]}

InitCobertura ==
    \/ report \in {Some(d) : d \in CoberturaRootDocs}
    \/ report \in {Some(d) : d \in CoberturaClassDocs}
    \/ report \in {Some(d) : d \in CoberturaStructureDocs}
    \/ report \in {Some(d) : d \in CoberturaBrokenDocs}

-----------------------------------------------------------------------------
(* parsers/istanbul.ts                                                     *)
(*                                                                         *)
(* The input is modelled after JSON.parse: syntaxOk = FALSE when it        *)
(* throws, else the entries of the top-level object in Object.keys order,  *)
(* each a [key, file].  A map of a file (statementMap, s, fnMap, f,        *)
(* branchMap, b) is None when the property is missing and else Some(f), f  *)
(* a function from its keys.  A statement location is [start, end], the    *)
(* two line numbers; a branchMap value is its locations.length; a b value  *)
(* is the sequence of hit counts of the branch.                            *)
(***************************************************************************)

\* file.statementMap || {}
OrEmpty(map) == IF map = None THEN <<>> ELSE map[1]

\* Object.values(hits).filter((hit) => hit > 0).length
CountHit(hits) == Cardinality({k \in DOMAIN hits : hits[k] > 0})

calculateStatements(file) ==
    LET total == Cardinality(DOMAIN OrEmpty(file.statementMap))
        covered == CountHit(OrEmpty(file.s))
    IN  [total |-> total, covered |-> covered,
         percentage |-> IF total > 0 THEN (covered * 10000) \div total ELSE 10000]

RECURSIVE SumOverKeys(_, _)
SumOverKeys(f, keys) ==
    IF keys = {} THEN 0
    ELSE LET k == CHOOSE x \in keys : TRUE
         IN  f[k] + SumOverKeys(f, keys \ {k})

calculateBranches(file) ==
    LET branchMap == OrEmpty(file.branchMap)
        b == OrEmpty(file.b)
        total == SumOverKeys(branchMap, DOMAIN branchMap)
        hitsOf == [k \in DOMAIN b |-> Cardinality({i \in 1..Len(b[k]) : b[k][i] > 0})]
        covered == SumOverKeys(hitsOf, DOMAIN b)
    IN  [total |-> total, covered |-> covered,
         percentage |-> IF total > 0 THEN (covered * 10000) \div total ELSE 10000]

calculateFunctions(file) ==
    LET total == Cardinality(DOMAIN OrEmpty(file.fnMap))
        covered == CountHit(OrEmpty(file.f))
    IN  [total |-> total, covered |-> covered,
         percentage |-> IF total > 0 THEN (covered * 10000) \div total ELSE 10000]

\* variant: a line is covered only when every statement that spans it is hit
calculateLines_AllHit(file) ==
    LET sm == OrEmpty(file.statementMap)
        hit(k) == file.s # None /\ k \in DOMAIN file.s[1] /\ file.s[1][k] > 0
        lineSet == UNION {sm[k].start .. sm[k].end : k \in DOMAIN sm}
        coveredLines == {l \in lineSet :
                            \A k \in DOMAIN sm :
                                (sm[k].start <= l /\ l <= sm[k].end) => hit(k)}
    IN  [total |-> Cardinality(lineSet), covered |-> Cardinality(coveredLines),
         percentage |-> IF Cardinality(lineSet) > 0
                        THEN (Cardinality(coveredLines) * 10000) \div Cardinality(lineSet)
                        ELSE 10000]

calculateLines(file) ==
    LET sm == OrEmpty(file.statementMap)
        lineSet == UNION {sm[k].start .. sm[k].end : k \in DOMAIN sm}
        coveredLines == UNION {sm[k].start .. sm[k].end :
                                  k \in {x \in DOMAIN sm :
                                            /\ file.s # None
                                            /\ x \in DOMAIN file.s[1]
                                            /\ file.s[1][x] > 0}}
    IN  [total |-> Cardinality(lineSet), covered |-> Cardinality(coveredLines),
         percentage |-> IF Cardinality(lineSet) > 0
                        THEN (Cardinality(coveredLines) * 10000) \div Cardinality(lineSet)
                        ELSE 10000]

\* IstanbulParser.calculateSummary
istanbulSummary(files) ==
    [m \in MetricSet |->
        LET total == SumField(files, m, "total")
            covered == SumField(files, m, "covered")
        IN  [total |-> total, covered |-> covered,
             percentage |-> IF total > 0 THEN (covered * 10000) \div total ELSE 10000]]

\* IstanbulParser.parse
istanbulParse(data) ==
    IF ~data.syntaxOk THEN Err("Failed to parse Istanbul JSON")
    ELSE IF Len(data.entries) = 0 THEN Err("Istanbul coverage file contains no data")
    ELSE LET files == [i \in 1..Len(data.entries) |->
                          LET file == data.entries[i].file
                          IN  [path |-> IF file.path # None THEN file.path[1]
                                        ELSE data.entries[i].key,
                               statements |-> calculateStatements(file),
                               branches |-> calculateBranches(file),
                               functions |-> calculateFunctions(file),
                               lines |-> calculateLines(file)]]
         IN  Ok([format |-> "istanbul", summary |-> istanbulSummary(files), files |-> files])

-----------------------------------------------------------------------------
(* Inputs of IstanbulParser.parse *)

KeyNames == <<"0", "1", "2", "3">>

KeySet == {KeyNames[i] : i \in 1..MaxMapKeys}

\* the maps with keys among KeySet and values in V, missing map included
MapsOver(V) == {None} \cup {Some(f) : f \in UNION {[K -> V] : K \in SUBSET KeySet}}

Locations ==
    {l \in [start : 1..MaxLine, end : 1..MaxLine] : l.start <= l.end}

IstanbulFile(sm, s, fm, f, bm, b) ==
    [path |-> None, statementMap |-> sm, s |-> s, fnMap |-> fm, f |-> f,
     branchMap |-> bm, b |-> b]

\* one statement on line 1, hit; nothing else
PlainFile ==
    IstanbulFile(Some([k \in {"0"} |-> [start |-> 1, end |-> 1]]), Some([k \in {"0"} |-> 1]),
                 Some(<<>>), Some(<<>>), Some(<<>>), Some(<<>>))

IstanbulDoc(entries) ==
    [parser |-> "istanbul", data |-> [syntaxOk |-> TRUE, entries |-> entries]]

\* one file whose statement maps vary
IstanbulStatementDocs ==
    {IstanbulDoc(<<[key |-> "/src/a.js",
                    file |-> IstanbulFile(sm, s, PlainFile.fnMap, PlainFile.f,
                                          PlainFile.branchMap, PlainFile.b)]>>) :
        sm \in MapsOver(Locations), s \in MapsOver({0, 1})}

\* one file whose function maps vary
IstanbulFunctionDocs ==
    {IstanbulDoc(<<[key |-> "/src/a.js",
                    file |-> IstanbulFile(PlainFile.statementMap, PlainFile.s, fm, f,
                                          PlainFile.branchMap, PlainFile.b)]>>) :
        fm \in MapsOver({"fn"}), f \in MapsOver({0, 1})}

\* one file whose branch maps vary
IstanbulBranchDocs ==
    {IstanbulDoc(<<[key |-> "/src/a.js",
                    file |-> IstanbulFile(PlainFile.statementMap, PlainFile.s,
                                          PlainFile.fnMap, PlainFile.f, bm, b)]>>) :
        bm \in MapsOver({2, 3}), b \in MapsOver({<<0, 0>>, <<1, 0>>, <<1, 1, 1>>})}

\* zero to MaxFiles files under distinct keys, with and without a path property
IstanbulStructureDocs ==
    {IstanbulDoc(e) :
        e \in {q \in SeqsUpTo([key : {"/src/a.js", "/src/b.js"},
                               file : {PlainFile,
                                       [PlainFile EXCEPT !.path = Some("/abs/a.js")]}],
                              MaxFiles) :
                  \A i, j \in 1..Len(q) : q[i].key = q[j].key => i = j}}

IstanbulBrokenDocs ==
    {[parser |-> "istanbul", data |-> [syntaxOk |-> FALSE, entries |-> <<>>]]}

InitIstanbul ==
    \/ report \in {Some(d) : d \in IstanbulStatementDocs}
    \/ report \in {Some(d) : d \in IstanbulFunctionDocs}
    \/ report \in {Some(d) : d \in IstanbulBranchDocs}
    \/ report \in {Some(d) : d \in IstanbulStructureDocs}
    \/ report \in {Some(d) : d \in IstanbulBrokenDocs}

-----------------------------------------------------------------------------
(* parsers/lcov.ts                                                         *)
(*                                                                         *)
(* The input is modelled after lcovParse.source: what it hands to the      *)
(* callback, err (None for null) and data (None for undefined, else the    *)
(* records).  A record is [file, lines, functions, branches], each of the  *)
(* three a [found, hit].                                                   *)
(***************************************************************************)

\* variant: the summary percentage is the mean of the files' percentages
lcovSummary_MeanOfFiles(data) ==
    LET kind == [statements |-> "lines", branches |-> "branches",
                 functions |-> "functions", lines |-> "lines"]
        RECURSIVE Sum(_, _, _)
        Sum(d, k, f) == IF d = <<>> THEN 0 ELSE Head(d)[k][f] + Sum(Tail(d), k, f)
        RECURSIVE SumPct(_, _)
        SumPct(d, k) ==
            IF d = <<>> THEN 0
            ELSE calculateMetric(Head(d)[k].hit, Head(d)[k].found).percentage
                 + SumPct(Tail(d), k)
    IN  [m \in MetricSet |->
            [total |-> Sum(data, kind[m], "found"),
             covered |-> Sum(data, kind[m], "hit"),
             percentage |-> SumPct(data, kind[m]) \div Len(data)]]

\* LcovParser.calculateSummary
lcovSummary(data) ==
    LET RECURSIVE Sum(_, _, _)
        Sum(d, k, f) == IF d = <<>> THEN 0 ELSE Head(d)[k][f] + Sum(Tail(d), k, f)
    IN  [statements |-> calculateMetric(Sum(data, "lines", "hit"), Sum(data, "lines", "found")),
         branches |-> calculateMetric(Sum(data, "branches", "hit"),
                                      Sum(data, "branches", "found")),
         functions |-> calculateMetric(Sum(data, "functions", "hit"),
                                       Sum(data, "functions", "found")),
         lines |-> calculateMetric(Sum(data, "lines", "hit"), Sum(data, "lines", "found"))]

\* variant: an empty record list is parsed like any other
lcovParse_NoEmptyTest(result) ==
    IF result.err # None THEN Err("Failed to parse LCOV")
    ELSE LET data == IF result.data = None THEN <<>> ELSE result.data[1]
             files == [i \in 1..Len(data) |->
                          [path |-> data[i].file,
                           statements |-> calculateMetric(data[i].lines.hit,
                                                          data[i].lines.found),
                           branches |-> calculateMetric(data[i].branches.hit,
                                                        data[i].branches.found),
                           functions |-> calculateMetric(data[i].functions.hit,
                                                         data[i].functions.found),
                           lines |-> calculateMetric(data[i].lines.hit, data[i].lines.found)]]
         IN  Ok([format |-> "lcov", summary |-> lcovSummary(data), files |-> files])

\* LcovParser.parse
lcovParse(result) ==
    IF result.err # None THEN Err("Failed to parse LCOV")
    ELSE IF result.data = None \/ Len(result.data[1]) = 0
    THEN Err("LCOV file contains no coverage data")
    ELSE LET data == result.data[1]
             files == [i \in 1..Len(data) |->
                          [path |-> data[i].file,
                           statements |-> calculateMetric(data[i].lines.hit,
                                                          data[i].lines.found),
                           branches |-> calculateMetric(data[i].branches.hit,
                                                        data[i].branches.found),
                           functions |-> calculateMetric(data[i].functions.hit,
                                                         data[i].functions.found),
                           lines |-> calculateMetric(data[i].lines.hit, data[i].lines.found)]]
         IN  Ok([format |-> "lcov", summary |-> lcovSummary(data), files |-> files])

-----------------------------------------------------------------------------
(* Inputs of LcovParser.parse *)

LcovCounts == [found : 0..MaxFound, hit : 0..MaxFound]

LcovRecord(file, l, f, b) == [file |-> file, lines |-> l, functions |-> f, branches |-> b]

\* three records: half of 2 lines, all of 1 line, nothing found
RecordP ==
    LcovRecord("src/a.js", [found |-> 2, hit |-> 1], [found |-> 1, hit |-> 1],
               [found |-> 2, hit |-> 0])
RecordQ ==
    LcovRecord("src/b.js", [found |-> 1, hit |-> 1], [found |-> 0, hit |-> 0],
               [found |-> 0, hit |-> 0])
RecordR ==
    LcovRecord("src/c.js", [found |-> 0, hit |-> 0], [found |-> 0, hit |-> 0],
               [found |-> 0, hit |-> 0])

LcovDoc(err, data) == [parser |-> "lcov", data |-> [err |-> err, data |-> data]]

\* one record whose counts vary
LcovRecordDocs ==
    {LcovDoc(None, Some(<<LcovRecord("src/a.js", l, f, b)>>)) :
        l \in LcovCounts, f \in LcovCounts, b \in LcovCounts}

\* zero to MaxFiles records
LcovStructureDocs ==
    {LcovDoc(None, Some(d)) : d \in SeqsUpTo({RecordP, RecordQ, RecordR}, MaxFiles)}

\* lcov-parse reports an error, or hands over nothing
LcovBrokenDocs ==
    {LcovDoc(Some("Failed to parse string"), None), LcovDoc(None, None)}

InitLcov ==
    \/ report \in {Some(d) : d \in LcovRecordDocs}
    \/ report \in {Some(d) : d \in LcovStructureDocs}
    \/ report \in {Some(d) : d \in LcovBrokenDocs}

-----------------------------------------------------------------------------
(* parsers/clover.ts                                                       *)
(*                                                                         *)
(* The input is modelled after XMLParser.parse, as for Cobertura: an       *)
(* optional element is None when it is absent (or parsed to the empty      *)
(* string, which the code's truth tests treat alike), an element that may  *)
(* repeat (file, package, line) is the sequence of its occurrences, an     *)
(* attribute is None or Some(n).  The document is [syntaxOk, coverage,     *)
(* project]: the root coverage element, [project], and a bare root         *)
(* project.                                                                *)
(***************************************************************************)

\* CloverParser.parseMetrics
parseMetrics(metrics) ==
    LET statements == ParseIntDefaultZero(metrics.statements)
        coveredStatements == ParseIntDefaultZero(metrics.coveredstatements)
        conditionals == ParseIntDefaultZero(metrics.conditionals)
        coveredConditionals == ParseIntDefaultZero(metrics.coveredconditionals)
        methods == ParseIntDefaultZero(metrics.methods)
        coveredMethods == ParseIntDefaultZero(metrics.coveredmethods)
    IN  [statements |-> calculateMetric(coveredStatements, statements),
         branches |-> calculateMetric(coveredConditionals, conditionals),
         functions |-> calculateMetric(coveredMethods, methods),
         lines |-> calculateMetric(coveredStatements, statements)]

\* the line loop of CloverParser.parseFile
RECURSIVE CountCloverLines(_)
CountCloverLines(lines) ==
    IF lines = <<>>
    THEN [totalStatements |-> 0, coveredStatements |-> 0, totalBranches |-> 0,
          coveredBranches |-> 0, totalMethods |-> 0, coveredMethods |-> 0]
    ELSE LET r == CountCloverLines(Tail(lines))
             line == Head(lines)
             count == ParseOrZero(line.count)
             trueCount == ParseIntDefaultZero(line.truecount)
             falseCount == ParseIntDefaultZero(line.falsecount)
         IN  CASE line.type = "stmt" ->
                    [r EXCEPT !.totalStatements = @ + 1,
                              !.coveredStatements = @ + (IF count > 0 THEN 1 ELSE 0)]
               [] line.type = "cond" ->
                    [r EXCEPT !.totalBranches = @ + 2,
                              !.coveredBranches = @ + (IF trueCount > 0 THEN 1 ELSE 0)
                                                    + (IF falseCount > 0 THEN 1 ELSE 0)]
               [] line.type = "method" ->
                    [r EXCEPT !.totalMethods = @ + 1,
                              !.coveredMethods = @ + (IF count > 0 THEN 1 ELSE 0)]
               [] OTHER -> r

\* variant: the raw line elements are counted even when metrics is present
parseFile_LinesFirst(file) ==
    LET filePath == IF file.path # None THEN file.path[1] ELSE file.name
        n == CountCloverLines(IF file.line # None THEN file.line[1] ELSE <<>>)
    IN  IF file.metrics # None /\ file.line = None
        THEN [path |-> filePath,
              statements |-> parseMetrics(file.metrics[1]).statements,
              branches |-> parseMetrics(file.metrics[1]).branches,
              functions |-> parseMetrics(file.metrics[1]).functions,
              lines |-> parseMetrics(file.metrics[1]).lines]
        ELSE [path |-> filePath,
              statements |-> calculateMetric(n.coveredStatements, n.totalStatements),
              branches |-> calculateMetric(n.coveredBranches, n.totalBranches),
              functions |-> calculateMetric(n.coveredMethods, n.totalMethods),
              lines |-> calculateMetric(n.coveredStatements, n.totalStatements)]

\* CloverParser.parseFile
parseFile(file) ==
    LET filePath == IF file.path # None THEN file.path[1] ELSE file.name
        n == CountCloverLines(IF file.line # None THEN file.line[1] ELSE <<>>)
    IN  IF file.metrics # None
        THEN [path |-> filePath,
              statements |-> parseMetrics(file.metrics[1]).statements,
              branches |-> parseMetrics(file.metrics[1]).branches,
              functions |-> parseMetrics(file.metrics[1]).functions,
              lines |-> parseMetrics(file.metrics[1]).lines]
        ELSE [path |-> filePath,
              statements |-> calculateMetric(n.coveredStatements, n.totalStatements),
              branches |-> calculateMetric(n.coveredBranches, n.totalBranches),
              functions |-> calculateMetric(n.coveredMethods, n.totalMethods),
              lines |-> calculateMetric(n.coveredStatements, n.totalStatements)]

\* CloverParser.aggregateSummary
aggregateSummary(files) == [m \in MetricSet |-> aggregateMetric(files, m)]

\* the files loops of CloverParser.parse
RECURSIVE CloverFiles(_)
CloverFiles(files) ==
    IF files = <<>> THEN <<>> ELSE <<parseFile(Head(files))>> \o CloverFiles(Tail(files))

RECURSIVE CloverPackageFiles(_)
CloverPackageFiles(packages) ==
    IF packages = <<>> THEN <<>>
    ELSE (IF Head(packages).file # None THEN CloverFiles(Head(packages).file[1]) ELSE <<>>)
         \o CloverPackageFiles(Tail(packages))

\* data.coverage?.project || data.project
CloverProject(data) ==
    IF data.coverage # None /\ data.coverage[1].project # None
    THEN data.coverage[1].project
    ELSE data.project

\* variant: the summary is always summed from the files
cloverSummary_AlwaysAggregate(project, files) == aggregateSummary(files)

\* the summary of CloverParser.parse
cloverSummary(project, files) ==
    IF project.metrics # None THEN parseMetrics(project.metrics[1])
    ELSE aggregateSummary(files)

\* variant: a coverage element is accepted without a project
cloverParse_NoProjectTest(data) ==
    IF ~data.syntaxOk THEN Err("Failed to parse Clover XML")
    ELSE IF CloverProject(data) = None /\ data.coverage = None
    THEN Err("Invalid Clover format: missing project element")
    ELSE LET project == IF CloverProject(data) = None
                        THEN [metrics |-> None, file |-> None, package |-> None]
                        ELSE CloverProject(data)[1]
             files == (IF project.file # None THEN CloverFiles(project.file[1]) ELSE <<>>)
                      \o (IF project.package # None
                          THEN CloverPackageFiles(project.package[1]) ELSE <<>>)
         IN  Ok([format |-> "clover", summary |-> cloverSummary(project, files),
                 files |-> files])

\* CloverParser.parse
cloverParse(data) ==
    IF ~data.syntaxOk THEN Err("Failed to parse Clover XML")
    ELSE IF CloverProject(data) = None
    THEN Err("Invalid Clover format: missing project element")
    ELSE LET project == CloverProject(data)[1]
             files == (IF project.file # None THEN CloverFiles(project.file[1]) ELSE <<>>)
                      \o (IF project.package # None
                          THEN CloverPackageFiles(project.package[1]) ELSE <<>>)
         IN  Ok([format |-> "clover", summary |-> cloverSummary(project, files),
                 files |-> files])

-----------------------------------------------------------------------------
(* Inputs of CloverParser.parse *)

CloverMetrics ==
    [statements : {None, Some(0), Some(4)},
     coveredstatements : {None, Some(0), Some(3)},
     conditionals : {None, Some(2)},
     coveredconditionals : {None, Some(1)},
     methods : {None, Some(1)},
     coveredmethods : {None, Some(1)}]

\* statements="4" coveredstatements="3" conditionals="2"
\* coveredconditionals="1" methods="1" coveredmethods="1"
TypicalMetrics ==
    [statements |-> Some(4), coveredstatements |-> Some(3), conditionals |-> Some(2),
     coveredconditionals |-> Some(1), methods |-> Some(1), coveredmethods |-> Some(1)]

\* statements="10" coveredstatements="5", nothing else
ProjectMetrics ==
    [statements |-> Some(10), coveredstatements |-> Some(5), conditionals |-> None,
     coveredconditionals |-> None, methods |-> None, coveredmethods |-> None]

CloverLines ==
    [type : {"stmt", "method"}, count : {Some(0), Some(2)},
     truecount : {None}, falsecount : {None}]
    \cup [type : {"cond"}, count : {Some(0)},
          truecount : {None, Some(0), Some(3)}, falsecount : {Some(0), Some(1)}]
    \cup [type : {"other"}, count : {Some(1)}, truecount : {None}, falsecount : {None}]
    \cup [type : {"stmt"}, count : {Malformed}, truecount : {None}, falsecount : {None}]

CloverFile(path, name, metrics, line) ==
    [path |-> path, name |-> name, metrics |-> metrics, line |-> line]

\* two files: one with a metrics element and lines, one with lines only
FileM ==
    CloverFile(Some("/src/a.php"), "a.php", Some(TypicalMetrics),
               Some(<<[type |-> "stmt", count |-> Some(1), truecount |-> None,
                       falsecount |-> None]>>))
FileL ==
    CloverFile(None, "b.php", None,
               Some(<<[type |-> "stmt", count |-> Some(0), truecount |-> None,
                       falsecount |-> None],
                      [type |-> "cond", count |-> Some(1), truecount |-> Some(1),
                       falsecount |-> Some(0)]>>))

CloverDoc(coverageElem, projectElem) ==
    [parser |-> "clover",
     data |-> [syntaxOk |-> TRUE, coverage |-> coverageElem, project |-> projectElem]]

\* one file, under coverage/project, whose lines vary
CloverLineDocs ==
    {CloverDoc(Some([project |-> Some([metrics |-> None,
                                        file |-> Some(<<CloverFile(None, "a.php", m, l)>>),
                                        package |-> None])]), None) :
        m \in {None, Some(TypicalMetrics)}, l \in Children(CloverLines, MaxLines)}

\* one file, under coverage/project, whose metrics element varies
CloverMetricsDocs ==
    {CloverDoc(Some([project |-> Some([metrics |-> None,
                                        file |-> Some(<<CloverFile(None, "a.php", Some(m),
                                                                   FileL.line)>>),
                                        package |-> None])]), None) :
        m \in CloverMetrics}

CloverProjects ==
    [metrics : {None, Some(ProjectMetrics)},
     file : {None, Some(<<FileM>>), Some(<<FileM, FileL>>)},
     package : {None, Some(<<[file |-> None]>>), Some(<<[file |-> Some(<<FileL>>)]>>),
                Some(<<[file |-> Some(<<FileL>>)], [file |-> Some(<<FileM>>)]>>)}]

\* the project varies, under coverage or as the root, or is missing
CloverStructureDocs ==
    {CloverDoc(Some([project |-> Some(p)]), None) : p \in CloverProjects}
    \cup {CloverDoc(None, Some(p)) : p \in CloverProjects}
    \cup {CloverDoc(Some([project |-> None]), Some(p)) : p \in CloverProjects}
    \cup {CloverDoc(Some([project |-> None]), None), CloverDoc(None, None)}

CloverBrokenDocs ==
    {[parser |-> "clover", data |-> [syntaxOk |-> FALSE, coverage |-> None, project |-> None]]}

InitClover ==
    \/ report \in {Some(d) : d \in CloverLineDocs}
    \/ report \in {Some(d) : d \in CloverMetricsDocs}
    \/ report \in {Some(d) : d \in CloverStructureDocs}
    \/ report \in {Some(d) : d \in CloverBrokenDocs}

-----------------------------------------------------------------------------
(* parsers/jacoco.ts                                                       *)
(*                                                                         *)
(* The input is modelled after XMLParser.parse, as for Cobertura and       *)
(* Clover.  A counter is [type, missed, covered]; a line is [mi, ci, mb,   *)
(* cb]; the path of a file is the pair <<package name, sourcefile name>>   *)
(* that the code joins with '/'.                                           *)
(***************************************************************************)

ZeroMetric == [total |-> 0, covered |-> 0, percentage |-> 10000]

\* the metrics record after the loop of parseCounters: the last counter of
\* a type is the one that stays
RECURSIVE CounterOfType(_, _)
CounterOfType(counters, type) ==
    IF counters = <<>> THEN None
    ELSE LET last == counters[Len(counters)]
         IN  IF last.type = type
             THEN Some(calculateMetric(ParseOrZero(last.covered),
                                       ParseOrZero(last.missed) + ParseOrZero(last.covered)))
             ELSE CounterOfType(SubSeq(counters, 1, Len(counters) - 1), type)

\* metrics[type] || { total: 0, covered: 0, percentage: 100 }
MetricOrZero(counters, type) ==
    IF CounterOfType(counters, type) = None THEN ZeroMetric
    ELSE CounterOfType(counters, type)[1]

\* variant: statements is read from the COMPLEXITY counter
parseCounters_Complexity(counters) ==
    [statements |-> MetricOrZero(counters, "COMPLEXITY"),
     branches |-> MetricOrZero(counters, "BRANCH"),
     functions |-> MetricOrZero(counters, "METHOD"),
     lines |-> MetricOrZero(counters, "LINE")]

\* JacocoParser.parseCounters
parseCounters(counters) ==
    [statements |-> MetricOrZero(counters, "INSTRUCTION"),
     branches |-> MetricOrZero(counters, "BRANCH"),
     functions |-> MetricOrZero(counters, "METHOD"),
     lines |-> MetricOrZero(counters, "LINE")]

\* the line loop of JacocoParser.parseSourceFile
RECURSIVE CountJacocoLines(_)
CountJacocoLines(lines) ==
    IF lines = <<>>
    THEN [totalLines |-> 0, coveredLines |-> 0, totalBranches |-> 0, coveredBranches |-> 0,
          totalInstructions |-> 0, coveredInstructions |-> 0]
    ELSE LET r == CountJacocoLines(Tail(lines))
             mi == ParseOrZero(Head(lines).mi)
             ci == ParseOrZero(Head(lines).ci)
             mb == ParseOrZero(Head(lines).mb)
             cb == ParseOrZero(Head(lines).cb)
         IN  [totalLines |-> r.totalLines + 1,
              coveredLines |-> r.coveredLines + (IF ci > 0 THEN 1 ELSE 0),
              totalBranches |-> r.totalBranches + mb + cb,
              coveredBranches |-> r.coveredBranches + cb,
              totalInstructions |-> r.totalInstructions + mi + ci,
              coveredInstructions |-> r.coveredInstructions + ci]

\* JacocoParser.parseSourceFile
parseSourceFile(srcFile, filePath) ==
    IF srcFile.counter # None
    THEN LET cov == parseCounters(srcFile.counter[1])
         IN  [path |-> filePath, statements |-> cov.statements, branches |-> cov.branches,
              functions |-> cov.functions, lines |-> cov.lines]
    ELSE LET n == CountJacocoLines(IF srcFile.line # None THEN srcFile.line[1] ELSE <<>>)
         IN  [path |-> filePath,
              statements |-> calculateMetric(n.coveredInstructions, n.totalInstructions),
              branches |-> calculateMetric(n.coveredBranches, n.totalBranches),
              functions |-> ZeroMetric,
              lines |-> calculateMetric(n.coveredLines, n.totalLines)]

\* the sourcefile and package loops of JacocoParser.parse
RECURSIVE JacocoSourceFiles(_, _)
JacocoSourceFiles(pkgName, sourceFiles) ==
    IF sourceFiles = <<>> THEN <<>>
    ELSE <<parseSourceFile(Head(sourceFiles), <<pkgName, Head(sourceFiles).name>>)>>
         \o JacocoSourceFiles(pkgName, Tail(sourceFiles))

RECURSIVE JacocoPackageFiles(_)
JacocoPackageFiles(packages) ==
    IF packages = <<>> THEN <<>>
    ELSE (IF Head(packages).sourcefile # None
          THEN JacocoSourceFiles(Head(packages).name[1], Head(packages).sourcefile[1])
          ELSE <<>>) \o JacocoPackageFiles(Tail(packages))

\* pkg['@_name'].replace on a package without a name attribute throws
JacocoTypeError(rep) ==
    /\ rep.package # None
    /\ \E i \in 1..Len(rep.package[1]) :
           rep.package[1][i].sourcefile # None /\ rep.package[1][i].name = None

\* variant: the summary is always summed from the files
jacocoSummary_AlwaysAggregate(rep, files) == aggregateSummary(files)

\* the summary of JacocoParser.parse
jacocoSummary(rep, files) ==
    IF rep.counter # None THEN parseCounters(rep.counter[1]) ELSE aggregateSummary(files)

\* JacocoParser.parse
jacocoParse(data) ==
    IF ~data.syntaxOk THEN Err("Failed to parse JaCoCo XML")
    ELSE IF data.report = None THEN Err("Invalid JaCoCo format: missing report element")
    ELSE IF JacocoTypeError(data.report[1]) THEN Err("TypeError")
    ELSE LET rep == data.report[1]
             files == IF rep.package # None THEN JacocoPackageFiles(rep.package[1]) ELSE <<>>
         IN  Ok([format |-> "jacoco", summary |-> jacocoSummary(rep, files), files |-> files])

-----------------------------------------------------------------------------
(* Inputs of JacocoParser.parse *)

CounterTypes == {"INSTRUCTION", "BRANCH", "LINE", "COMPLEXITY", "METHOD", "CLASS"}

JacocoCounters ==
    [type : CounterTypes, missed : {Some(0), Some(1)}, covered : {Some(0), Some(2)}]
    \cup [type : {"LINE"}, missed : {Malformed}, covered : {Some(2), Malformed}]

JacocoLines ==
    [mi : {Some(0), Some(1)}, ci : {Some(0), Some(2)}, mb : {Some(0), Some(1)},
     cb : {None, Some(1)}]
    \cup [mi : {Malformed}, ci : {Some(2), Malformed}, mb : {Some(0)}, cb : {None}]

\* INSTRUCTION 1+2, BRANCH 1+0, LINE 0+2, COMPLEXITY 1+2, METHOD 0+2, CLASS 0+2
TypicalCounters ==
    <<[type |-> "INSTRUCTION", missed |-> Some(1), covered |-> Some(2)],
      [type |-> "BRANCH", missed |-> Some(1), covered |-> Some(0)],
      [type |-> "LINE", missed |-> Some(0), covered |-> Some(2)],
      [type |-> "COMPLEXITY", missed |-> Some(1), covered |-> Some(2)],
      [type |-> "METHOD", missed |-> Some(0), covered |-> Some(2)],
      [type |-> "CLASS", missed |-> Some(0), covered |-> Some(2)]>>

\* two sourcefiles: one with lines only, one with counters
SourceL ==
    [name |-> "A.java", counter |-> None,
     line |-> Some(<<[mi |-> Some(1), ci |-> Some(2), mb |-> Some(1), cb |-> Some(1)],
                     [mi |-> Some(1), ci |-> Some(0), mb |-> Some(0), cb |-> None]>>)]
SourceC ==
    [name |-> "B.java", line |-> None,
     counter |-> Some(<<[type |-> "LINE", missed |-> Some(1), covered |-> Some(2)],
                        [type |-> "METHOD", missed |-> Some(1), covered |-> Some(0)]>>)]

JacocoDoc(package, counter) ==
    [parser |-> "jacoco",
     data |-> [syntaxOk |-> TRUE, report |-> Some([package |-> package, counter |-> counter])]]

\* the counters of the report vary
JacocoReportCounterDocs ==
    {JacocoDoc(Some(<<[name |-> Some("com/x"), sourcefile |-> Some(<<SourceL>>)]>>), c) :
        c \in Children(JacocoCounters, MaxCounters)}

\* the counters of one sourcefile vary
JacocoFileCounterDocs ==
    {JacocoDoc(Some(<<[name |-> Some("com/x"),
                       sourcefile |-> Some(<<[SourceL EXCEPT !.counter = c]>>)]>>), None) :
        c \in Children(JacocoCounters, MaxCounters)}

\* the lines of one sourcefile without counters vary
JacocoLineDocs ==
    {JacocoDoc(Some(<<[name |-> Some("com/x"),
                       sourcefile |-> Some(<<[name |-> "A.java", counter |-> None,
                                              line |-> l]>>)]>>), None) :
        l \in Children(JacocoLines, MaxLines)}

\* the packages and sourcefiles vary
JacocoStructureDocs ==
    {JacocoDoc(p, c) :
        p \in {None,
               Some(<<[name |-> Some("com/x"), sourcefile |-> None]>>),
               Some(<<[name |-> Some("com/x"), sourcefile |-> Some(<<SourceC>>)]>>),
               Some(<<[name |-> Some("com/x"), sourcefile |-> Some(<<SourceL, SourceC>>)]>>),
               Some(<<[name |-> Some("com/x"), sourcefile |-> Some(<<SourceL>>)],
                      [name |-> Some("com/y"), sourcefile |-> Some(<<SourceC>>)]>>),
               Some(<<[name |-> None, sourcefile |-> None]>>),
               Some(<<[name |-> None, sourcefile |-> Some(<<SourceC>>)]>>)},
        c \in {None, Some(TypicalCounters)}}

JacocoBrokenDocs ==
    {[parser |-> "jacoco", data |-> [syntaxOk |-> FALSE, report |-> None]],
     [parser |-> "jacoco", data |-> [syntaxOk |-> TRUE, report |-> None]]}

InitJacoco ==
    \/ report \in {Some(d) : d \in JacocoReportCounterDocs}
    \/ report \in {Some(d) : d \in JacocoFileCounterDocs}
    \/ report \in {Some(d) : d \in JacocoLineDocs}
    \/ report \in {Some(d) : d \in JacocoStructureDocs}
    \/ report \in {Some(d) : d \in JacocoBrokenDocs}

InitParse ==
    /\ InitCobertura \/ InitIstanbul \/ InitLcov \/ InitClover \/ InitJacoco
    /\ coverage = None
    /\ IdleCompare /\ IdleDetect /\ IdleRun

ParseCobertura ==
    /\ report # None /\ report[1].parser = "cobertura" /\ coverage = None
    /\ coverage' = Some(coberturaParse(report[1].data))
    /\ UNCHANGED <<current, baseline, threshold, comparison, content, filename,
                   detected, report, run, upload, pr>>

ParseIstanbul ==
    /\ report # None /\ report[1].parser = "istanbul" /\ coverage = None
    /\ coverage' = Some(istanbulParse(report[1].data))
    /\ UNCHANGED <<current, baseline, threshold, comparison, content, filename,
                   detected, report, run, upload, pr>>

ParseLcov ==
    /\ report # None /\ report[1].parser = "lcov" /\ coverage = None
    /\ coverage' = Some(lcovParse(report[1].data))
    /\ UNCHANGED <<current, baseline, threshold, comparison, content, filename,
                   detected, report, run, upload, pr>>

ParseClover ==
    /\ report # None /\ report[1].parser = "clover" /\ coverage = None
    /\ coverage' = Some(cloverParse(report[1].data))
    /\ UNCHANGED <<current, baseline, threshold, comparison, content, filename,
                   detected, report, run, upload, pr>>

ParseJacoco ==
    /\ report # None /\ report[1].parser = "jacoco" /\ coverage = None
    /\ coverage' = Some(jacocoParse(report[1].data))
    /\ UNCHANGED <<current, baseline, threshold, comparison, content, filename,
                   detected, report, run, upload, pr>>

NextParse == ParseCobertura \/ ParseIstanbul \/ ParseLcov \/ ParseClover \/ ParseJacoco

SpecParse == InitParse /\ [][NextParse]_vars

-----------------------------------------------------------------------------
(* One workflow run: run() with downloadBaseline, uploadResults and          *)
(* postPRComment.  Every await of run() ends one action.  The outcome of a   *)
(* request to the BFFLESS API, to the file system or to the GitHub API is    *)
(* chosen by the environment.  run() calls process.exit as the last          *)
(* statement of its try block and of its catch block; process.exit ends the  *)
(* process and does not return, so control never passes to the finally       *)
(* block (fs.rmSync of baselineDir): no action runs it, and tempDir keeps    *)
(* the value "exists" once downloadBaseline has called mkdtempSync.          *)

\* workflow runs on the same pull request
MaxRuns == 2

\* comments on the page that issues.listComments returns when it is called
\* without page parameters (scaled down)
PageSize == 2

shouldFail_AnyRegression(cmp, inputs) ==
    cmp.overallStatus = "regressed"

shouldFail(cmp, inputs) ==
    IF ~inputs.failOnRegression THEN FALSE
    ELSE cmp.overallStatus = "regressed"

\* the output 'result'
result(cmp) ==
    IF cmp.overallStatus = "regressed" THEN "fail"
    ELSE IF cmp.overallStatus = "improved" THEN "improved"
    ELSE "pass"

\* catch (error) { core.setFailed(message); process.exit(1) }: the process
\* ends inside the catch block
Catch(r, message) ==
    [r EXCEPT !.pc = "exited", !.threw = TRUE,
              !.failed = Some(message), !.exitCode = Some(1)]

\* how downloadBaseline ends
\*   requestFailed    requestPrepareBatchDownload rejects
\*   noFiles          prepareResponse.files is empty
\*   tooManyFailures  more downloads failed than succeeded
\*   notFound         resolveCoveragePath(tempDir) finds no coverage file
\*   parseFailed      parseBaselineCoverage throws, caught with a warning
\*   parsed           parseBaselineCoverage returns
DownloadOutcomes ==
    {"requestFailed", "noFiles", "tooManyFailures", "notFound", "parseFailed",
     "parsed"}

DownloadThrows == {"requestFailed", "tooManyFailures"}

BaselineCoverage_Fallback(outcome, cov) == Some(cov)

\* BaselineResult.coverage
BaselineCoverage(outcome, cov) ==
    IF outcome = "parsed" THEN Some(cov) ELSE None

\* the coverage of a run: every metric at pct percent (in hundredths)
RunCoverage(pct) ==
    [format |-> "lcov", summary |-> [m \in MetricSet |-> calculateMetric(pct, 10000)],
     files |-> <<>>]

CurrentRunCoverages == {RunCoverage(p) : p \in {7800, 7900, 8000, 8100}}

BaselineRunCoverage == RunCoverage(8000)

RunInputs ==
    [failOnRegression : BOOLEAN, uploadResults : BOOLEAN, summary : BOOLEAN,
     comment : BOOLEAN]

AllOn ==
    [failOnRegression |-> TRUE, uploadResults |-> TRUE, summary |-> TRUE,
     comment |-> TRUE]

\* the state of a run at the start of run()
StartRun(inputs, pathIsFile, n) ==
    [pc |-> "parse", n |-> n, inputs |-> inputs, pathIsFile |-> pathIsFile,
     download |-> "", tempDir |-> "none", baselineDir |-> FALSE,
     compared |-> FALSE, reportWritten |-> FALSE, summaryWritten |-> FALSE,
     outputs |-> None, threw |-> FALSE, failed |-> None, exitCode |-> None]

IdleUpload ==
    [pc |-> "idle", requests |-> <<>>, prepare |-> "", file |-> "",
     finalize |-> "", warning |-> "", uploadUrl |-> None]

\* a comment of the pull request: the type of its author, whether its body
\* contains inputs.commentHeader, and whether this action created it
OtherComment == [type |-> "User", header |-> FALSE, own |-> FALSE]
OtherBotComment == [type |-> "Bot", header |-> TRUE, own |-> FALSE]

InitialComments ==
    {[i \in 1..n |-> OtherComment] : n \in 0..PageSize} \cup {<<OtherBotComment>>}

Tokens_ == {"none", "app", "pat"}

\* user.type of a comment created with the token: 'Bot' for the token of the
\* workflow or of an app, 'User' for a personal access token
AuthorType(token) == IF token = "app" THEN "Bot" ELSE "User"

PullRequests ==
    [prNumber : BOOLEAN, token : Tokens_, comments : InitialComments,
     calls : {<<>>}]

InitRun ==
    /\ \/ /\ run \in {Some(StartRun(i, f, 1)) : i \in RunInputs, f \in BOOLEAN}
          /\ pr = Some([prNumber |-> TRUE, token |-> "app", comments |-> <<>>,
                        calls |-> <<>>])
          /\ threshold = 0
       \/ /\ run = Some(StartRun(AllOn, TRUE, 1))
          /\ pr \in {Some(p) : p \in PullRequests}
          /\ threshold \in {0, 100}
    /\ upload = Some(IdleUpload)
    /\ current = None /\ baseline = None /\ comparison = None
    /\ IdleDetect /\ IdleParse

\* steps 1 to 3: getInputs, deriveContext, parseLocalCoverage
RunParseLocal ==
    /\ run # None /\ run[1].pc = "parse"
    /\ \/ /\ run' = Some(Catch(run[1], "parseLocalCoverage"))
          /\ UNCHANGED current
       \/ /\ current' \in {Some(c) : c \in CurrentRunCoverages}
          /\ run' = Some([run[1] EXCEPT !.pc = "download"])
    /\ UNCHANGED <<baseline, threshold, comparison, content, filename, detected,
                   report, coverage, upload, pr>>

\* step 4: downloadBaseline, then baselineDir = baseline.outputDir and the
\* test of baseline.coverage
RunDownloadBaseline ==
    /\ run # None /\ run[1].pc = "download"
    /\ \E outcome \in DownloadOutcomes :
         LET made == [run[1] EXCEPT !.tempDir = "exists", !.download = outcome]
             cov == BaselineCoverage(outcome, BaselineRunCoverage)
         IN  IF outcome \in DownloadThrows
             THEN /\ run' = Some(Catch(made, outcome))
                  /\ UNCHANGED baseline
             ELSE IF cov = None
             THEN /\ run' = Some(Catch([made EXCEPT !.baselineDir = TRUE],
                                       "Failed to parse baseline coverage"))
                  /\ UNCHANGED baseline
             ELSE /\ run' = Some([made EXCEPT !.baselineDir = TRUE,
                                              !.pc = "compare"])
                  /\ baseline' = cov
    /\ UNCHANGED <<current, threshold, comparison, content, filename, detected,
                   report, coverage, upload, pr>>

\* steps 5 to 7: compareCoverage, the report, writeReport
RunCompare ==
    /\ run # None /\ run[1].pc = "compare"
    /\ comparison' = Some(compareCoverage(current[1], baseline[1], threshold))
    /\ \/ run' = Some(Catch([run[1] EXCEPT !.compared = TRUE], "writeReport"))
       \/ run' = Some([run[1] EXCEPT !.compared = TRUE, !.reportWritten = TRUE,
                                     !.pc = "upload"])
    /\ UNCHANGED <<current, baseline, threshold, content, filename, detected,
                   report, coverage, upload, pr>>

\* uploadResults returns to run()
Returned(u) == [u EXCEPT !.pc = "returned"]

\* catch (error) { core.warning('Failed to upload coverage: ...') }
Warned(u) == [u EXCEPT !.pc = "returned", !.warning = "Failed to upload coverage"]

\* step 8: if (inputs.uploadResults) uploadResults(...), up to its first await
RunUploadResults ==
    /\ run # None /\ run[1].pc = "upload" /\ upload[1].pc = "idle"
    /\ IF ~run[1].inputs.uploadResults
       THEN /\ run' = Some([run[1] EXCEPT !.pc = "outputs"])
            /\ UNCHANGED upload
       ELSE IF ~run[1].pathIsFile
       THEN /\ upload' = Some([Returned(upload[1]) EXCEPT
                                  !.warning = "Coverage path is not a file"])
            /\ run' = Some([run[1] EXCEPT !.pc = "outputs"])
       ELSE /\ upload' = Some([upload[1] EXCEPT !.pc = "prepare"])
            /\ UNCHANGED run
    /\ UNCHANGED <<current, baseline, threshold, comparison, content, filename,
                   detected, report, coverage, pr>>

\* what the prepare-batch-upload request ends with
\*   throws       the request rejects
\*   unsupported  presignedUrlsSupported is false
\*   invalid      files or uploadToken is missing
\*   noUrl        files has no entry for the coverage file
\*   ok           token and presigned URL are there
PrepareOutcomes == {"throws", "unsupported", "invalid", "noUrl", "ok"}

AfterPrepare(u, outcome) ==
    IF outcome = "ok" THEN [u EXCEPT !.pc = "file"]
    ELSE IF outcome = "unsupported"
    THEN [Returned(u) EXCEPT
             !.warning = "Storage does not support presigned URLs for upload"]
    ELSE Warned(u)

RequestPrepareBatchUpload ==
    /\ run # None /\ run[1].pc = "upload" /\ upload[1].pc = "prepare"
    /\ \E outcome \in PrepareOutcomes :
         LET sent == [upload[1] EXCEPT
                         !.requests = Append(@, "prepare-batch-upload"),
                         !.prepare = outcome]
         IN  /\ upload' = Some(AfterPrepare(sent, outcome))
             /\ run' = IF upload'[1].pc = "returned"
                       THEN Some([run[1] EXCEPT !.pc = "outputs"]) ELSE run
    /\ UNCHANGED <<current, baseline, threshold, comparison, content, filename,
                   detected, report, coverage, pr>>

\* what uploadFilesWithPresignedUrls ends with: it rejects, it reports a
\* failed file, or it reports none
FileOutcomes == {"throws", "failed", "ok"}

AfterFile_IgnoreFailures(u, outcome) ==
    IF outcome # "throws" THEN [u EXCEPT !.pc = "finalize"] ELSE Warned(u)

AfterFile(u, outcome) ==
    IF outcome = "ok" THEN [u EXCEPT !.pc = "finalize"] ELSE Warned(u)

UploadFilesWithPresignedUrls ==
    /\ run # None /\ run[1].pc = "upload" /\ upload[1].pc = "file"
    /\ \E outcome \in FileOutcomes :
         LET sent == [upload[1] EXCEPT !.requests = Append(@, "upload"),
                                       !.file = outcome]
         IN  /\ upload' = Some(AfterFile(sent, outcome))
             /\ run' = IF upload'[1].pc = "returned"
                       THEN Some([run[1] EXCEPT !.pc = "outputs"]) ELSE run
    /\ UNCHANGED <<current, baseline, threshold, comparison, content, filename,
                   detected, report, coverage, pr>>

FinalizeOutcomes == {"throws", "ok"}

AfterFinalize(u, outcome) ==
    IF outcome = "ok"
    THEN [Returned(u) EXCEPT !.uploadUrl = Some("url")]
    ELSE Warned(u)

FinalizeUpload ==
    /\ run # None /\ run[1].pc = "upload" /\ upload[1].pc = "finalize"
    /\ \E outcome \in FinalizeOutcomes :
         LET sent == [upload[1] EXCEPT !.requests = Append(@, "finalize"),
                                       !.finalize = outcome]
         IN  upload' = Some(AfterFinalize(sent, outcome))
    /\ run' = Some([run[1] EXCEPT !.pc = "outputs"])
    /\ UNCHANGED <<current, baseline, threshold, comparison, content, filename,
                   detected, report, coverage, pr>>

\* steps 9 and 10: the outputs, then generateSummary if inputs.summary
RunSetOutputs ==
    /\ run # None /\ run[1].pc = "outputs"
    /\ LET set == [run[1] EXCEPT
                      !.outputs = Some([result |-> result(comparison[1]),
                                        uploadUrl |-> upload[1].uploadUrl])]
       IN  IF ~run[1].inputs.summary
           THEN run' = Some([set EXCEPT !.pc = "comment"])
           ELSE \/ run' = Some(Catch(set, "generateSummary"))
                \/ run' = Some([set EXCEPT !.summaryWritten = TRUE,
                                           !.pc = "comment"])
    /\ UNCHANGED <<current, baseline, threshold, comparison, content, filename,
                   detected, report, coverage, upload, pr>>

\* the first page of the comments of the pull request
Listing(comments) ==
    SubSeq(comments, 1, IF Len(comments) < PageSize THEN Len(comments) ELSE PageSize)

IsBotComment(c) == c.type = "Bot" /\ c.header

\* comments.find(...): the index of the first match, 0 for undefined
botComment(comments) ==
    IF \E i \in 1..Len(comments) : IsBotComment(comments[i])
    THEN CHOOSE i \in 1..Len(comments) :
            /\ IsBotComment(comments[i])
            /\ \A j \in 1..(i - 1) : ~IsBotComment(comments[j])
    ELSE 0

\* the comments after updateComment of the comment at index i (i > 0), or
\* after createComment (i = 0); the new body begins with the header
Written(comments, i, token) ==
    IF i > 0 THEN [comments EXCEPT ![i].header = TRUE]
    ELSE Append(comments, [type |-> AuthorType(token), header |-> TRUE,
                           own |-> TRUE])

\* step 11: postPRComment if inputs.comment
PostPRComment ==
    /\ run # None /\ run[1].pc = "comment"
    /\ IF ~run[1].inputs.comment \/ ~pr[1].prNumber \/ pr[1].token = "none"
       THEN /\ run' = Some([run[1] EXCEPT !.pc = "finish"])
            /\ UNCHANGED pr
       ELSE LET found == botComment(Listing(pr[1].comments))
                write == IF found > 0 THEN "updateComment" ELSE "createComment"
            IN  \/ /\ pr' = Some([pr[1] EXCEPT !.calls = <<"listComments">>])
                   /\ run' = Some(Catch(run[1], "listComments"))
                \/ /\ pr' = Some([pr[1] EXCEPT !.calls = <<"listComments", write>>])
                   /\ run' = Some(Catch(run[1], write))
                \/ /\ pr' = Some([pr[1] EXCEPT
                                    !.calls = <<"listComments", write>>,
                                    !.comments = Written(@, found, pr[1].token)])
                   /\ run' = Some([run[1] EXCEPT !.pc = "finish"])
    /\ UNCHANGED <<current, baseline, threshold, comparison, content, filename,
                   detected, report, coverage, upload>>

\* step 12: core.setFailed if shouldFail, then process.exit: the process ends
\* inside the try block
RunExit ==
    /\ run # None /\ run[1].pc = "finish"
    /\ LET fail == shouldFail(comparison[1], run[1].inputs)
       IN  run' = Some([run[1] EXCEPT
                           !.pc = "exited",
                           !.failed = IF fail THEN Some("Coverage regressed") ELSE None,
                           !.exitCode = Some(IF fail THEN 1 ELSE 0)])
    /\ UNCHANGED <<current, baseline, threshold, comparison, content, filename,
                   detected, report, coverage, upload, pr>>

\* the workflow runs again on the same pull request, in a new process
Rerun ==
    /\ run # None /\ run[1].pc = "exited" /\ run[1].n < MaxRuns
    /\ run' = Some(StartRun(run[1].inputs, run[1].pathIsFile, run[1].n + 1))
    /\ upload' = Some(IdleUpload)
    /\ pr' = Some([pr[1] EXCEPT !.calls = <<>>])
    /\ current' = None /\ baseline' = None /\ comparison' = None
    /\ UNCHANGED <<threshold, content, filename, detected, report, coverage>>

NextRun ==
    \/ RunParseLocal
    \/ RunDownloadBaseline
    \/ RunCompare
    \/ RunUploadResults
    \/ RequestPrepareBatchUpload
    \/ UploadFilesWithPresignedUrls
    \/ FinalizeUpload
    \/ RunSetOutputs
    \/ PostPRComment
    \/ RunExit
    \/ Rerun

SpecRun == InitRun /\ [][NextRun]_vars

Init == InitCompare \/ InitDetect \/ InitParse \/ InitRun

Next ==
    \/ CompareCoverage
    \/ DetectFormat
    \/ ParseCobertura
    \/ ParseIstanbul
    \/ ParseLcov
    \/ ParseClover
    \/ ParseJacoco
    \/ NextRun

Spec == Init /\ [][Next]_vars

-----------------------------------------------------------------------------
(* Properties of compareCoverage *)

\* the delta of a summary metric, from the arguments of the call
SummaryDelta(name) ==
    current[1].summary[name].percentage - baseline[1].summary[name].percentage

\* the three-way status rule as the specification words it
StatusRule(d, st, thr) ==
    /\ st = "improved" <=> d > 0
    /\ st = "regressed" <=> d < -thr
    /\ st = "unchanged" <=> (d = 0 \/ (d < 0 /\ d >= -thr))

\* C1: each of the four summary metrics is classified on its own: with
\* delta = current.percentage - baseline.percentage the status is improved
\* iff delta > 0, regressed iff delta < -threshold and unchanged otherwise;
\* with threshold 0 every negative delta is regressed; baseline 80.0 and
\* current 78.0 give regressed under threshold 1.0 and unchanged under 3.0.
C1_MetricStatus ==
    comparison # None =>
        \A i \in 1..Len(MetricNames) :
            LET m == comparison[1].metrics[i]
                d == SummaryDelta(MetricNames[i])
            IN  /\ m.metric = MetricNames[i]
                /\ m.delta = d
                /\ StatusRule(d, m.status, threshold)
                /\ (threshold = 0 /\ d < 0) => m.status = "regressed"
                /\ (d = -200 /\ threshold = 100) => m.status = "regressed"
                /\ (d = -200 /\ threshold = 300) => m.status = "unchanged"

\* one comparison under threshold 1.0 holding a metric at delta -2.0
\* (regressed), one at delta -1.0 (unchanged) and one improved
C1_Witness ==
    /\ comparison # None /\ threshold = 100
    /\ \E i, j, k \in 1..Len(MetricNames) :
        /\ comparison[1].metrics[i].delta = -200
        /\ comparison[1].metrics[i].status = "regressed"
        /\ comparison[1].metrics[j].delta = -100
        /\ comparison[1].metrics[j].status = "unchanged"
        /\ comparison[1].metrics[k].status = "improved"

PathsOf(files) == {files[i].path : i \in 1..Len(files)}

\* the lines percentage a files list records for a path (when a list names
\* a path more than once, its last entry is the one the list records)
LinesPct(files, p) ==
    LET last == CHOOSE i \in 1..Len(files) :
                    /\ files[i].path = p
                    /\ \A j \in (i + 1)..Len(files) : files[j].path # p
    IN  files[last].lines.percentage

FileDelta(p) == LinesPct(current[1].files, p) - LinesPct(baseline[1].files, p)

Abs(x) == IF x < 0 THEN -x ELSE x

\* C3: the file-level list holds exactly the paths found in both
\* current.files and baseline.files whose lines-percentage delta d satisfies
\* |d| > 0.1 (0.1 itself is excluded, 0.11 included), each once, with
\* linesDelta = d and the three-way status of d, in ascending order of d.
C3_FileList ==
    comparison # None =>
        LET fs == comparison[1].files
            both == PathsOf(current[1].files) \cap PathsOf(baseline[1].files)
        IN  /\ PathsOf(fs) = {p \in both : Abs(FileDelta(p)) > 10}
            /\ \A p \in both : FileDelta(p) \in {10, -10} => p \notin PathsOf(fs)
            /\ \A p \in both : FileDelta(p) \in {11, -11} => p \in PathsOf(fs)
            /\ \A i, j \in 1..Len(fs) : i # j => fs[i].path # fs[j].path
            /\ \A i \in 1..Len(fs) :
                /\ fs[i].linesDelta = FileDelta(fs[i].path)
                /\ StatusRule(fs[i].linesDelta, fs[i].status, threshold)
            /\ \A i, j \in 1..Len(fs) : i < j => fs[i].linesDelta <= fs[j].linesDelta

\* two files changed, the regressed one listed first although the baseline
\* names it last, while a path found in one list only is left out
C3_Witness ==
    /\ comparison # None
    /\ Len(comparison[1].files) = 2
    /\ comparison[1].files[1].status = "regressed"
    /\ comparison[1].files[2].status = "improved"
    /\ comparison[1].files[1].path = baseline[1].files[Len(baseline[1].files)].path
    /\ baseline[1].files[1].path = comparison[1].files[2].path

\* a file whose delta is exactly 0.1 is left out of the list
C3_WitnessFloor ==
    /\ comparison # None
    /\ comparison[1].files = <<>>
    /\ \E p \in PathsOf(current[1].files) \cap PathsOf(baseline[1].files) :
           FileDelta(p) = 10

C22_SelfCompare ==
    (comparison # None /\ current = baseline) =>
        LET c == comparison[1]
        IN  /\ c.overallStatus = "unchanged"
            /\ Len(c.metrics) = 4
            /\ \A i \in 1..Len(c.metrics) :
                   c.metrics[i].delta = 0 /\ c.metrics[i].status = "unchanged"
            /\ c.overallDelta.num = 0
            /\ c.files = <<>>

\* a coverage with unequal metrics and a path listed twice, compared with
\* itself under threshold 0
C22_Witness ==
    /\ comparison # None /\ current = baseline /\ threshold = 0
    /\ Len(current[1].files) = 2
    /\ current[1].summary.lines # current[1].summary.branches
    /\ comparison[1].overallStatus = "unchanged"

StatusesUnder(t) == compareCoverage(current[1], baseline[1], t)

\* the metrics, or the files, of a comparison that have the status
WithStatus(entries, status) == {i \in 1..Len(entries) : entries[i].status = status}

\* C23: for thresholds t1 <= t2, a metric or file unchanged under t1 is not
\* regressed under t2, a metric regressed under t1 is not improved under
\* t2, the improved metrics are the same, and an overall status that is not
\* regressed under t1 is not regressed under t2.
C23_ThresholdMonotone ==
    comparison # None =>
        \A t2 \in {t \in Thresholds : t >= threshold} :
            LET c1 == comparison[1]
                c2 == StatusesUnder(t2)
            IN  /\ WithStatus(c1.metrics, "unchanged") \cap WithStatus(c2.metrics, "regressed")
                       = {}
                /\ WithStatus(c1.metrics, "regressed") \cap WithStatus(c2.metrics, "improved")
                       = {}
                /\ WithStatus(c1.metrics, "improved") = WithStatus(c2.metrics, "improved")
                /\ Len(c1.files) = Len(c2.files)
                /\ WithStatus(c1.files, "unchanged") \cap WithStatus(c2.files, "regressed") = {}
                /\ c1.overallStatus # "regressed" => c2.overallStatus # "regressed"

\* a comparison under threshold 0 with a regressed and an improved metric,
\* whose regressed metric is unchanged under threshold 3
C23_Witness ==
    /\ comparison # None /\ threshold = 0
    /\ WithStatus(comparison[1].metrics, "regressed") # {}
    /\ WithStatus(comparison[1].metrics, "improved") # {}
    /\ WithStatus(StatusesUnder(300).metrics, "regressed") = {}
    /\ StatusesUnder(300).overallStatus = "improved"

\* C30: an overallStatus unchanged means that each of the four metric
\* deltas lies in [-threshold, 0], and so does overallDelta; an unchanged
\* result never has a positive overallDelta.
C30_UnchangedDeltas ==
    (comparison # None /\ comparison[1].overallStatus = "unchanged") =>
        LET c == comparison[1]
        IN  /\ \A i \in 1..Len(c.metrics) :
                   -threshold <= c.metrics[i].delta /\ c.metrics[i].delta <= 0
            /\ c.overallDelta.den > 0
            /\ -threshold * c.overallDelta.den <= c.overallDelta.num
            /\ c.overallDelta.num <= 0

\* an unchanged comparison whose deltas are not all 0
C30_Witness ==
    /\ comparison # None /\ comparison[1].overallStatus = "unchanged"
    /\ threshold = 100
    /\ comparison[1].overallDelta.num < 0
    /\ \E i \in 1..4 : comparison[1].metrics[i].delta = -100

-----------------------------------------------------------------------------
(* Properties of detectFormat *)

\* the content contains the substring
Has(sub) == \E i \in DOMAIN content[1].text : content[1].text[i] = sub

\* the filename ends in the extension (letter case ignored)
ExtIs(e) ==
    LET f == filename[1]
    IN  f[Len(f)] = e \/ (e = ".info" /\ f[Len(f)] = ".INFO")
                      \/ (e = ".json" /\ f[Len(f)] = ".JSON")

\* the first token of the content that is not whitespace starts with '<'
TrimmedStartsWithLt ==
    \E i \in DOMAIN content[1].text :
        /\ content[1].text[i] \in LtTokens
        /\ \A j \in 1..(i - 1) : content[1].text[j] = " "

\* the content begins with <?xml
BeginsWithXmlDecl == content[1].text # <<>> /\ content[1].text[1] = "<?xml"

\* the content is JSON whose first value is a mapping with key statementMap or s
JsonFirstValueIstanbul ==
    LET j == content[1].json
    IN  /\ j.valid
        /\ j.value.t \in {"object", "array"}
        /\ j.value.items # <<>>
        /\ j.value.items[1].t = "object"
        /\ j.value.items[1].keys \cap {"statementMap", "s"} # {}

Rule1 == ExtIs(".info") \/ ExtIs(".lcov")
Rule2 == ExtIs(".json") /\ JsonFirstValueIstanbul
\* the content the XML tests are applied to
XmlContent == Has("<?xml") \/ TrimmedStartsWithLt
CoberturaTest == Has("<coverage") /\ Has("line-rate")
CloverTest == (Has("<coverage") /\ Has("clover")) \/ Has("<project")
JacocoTest == Has("<report") /\ Has("<counter")
Rule3 == XmlContent /\ (CoberturaTest \/ CloverTest \/ JacocoTest)
Rule4 == Has("SF:") /\ (Has("LF:") \/ Has("DA:"))

XmlFormats == {"cobertura", "clover", "jacoco"}

\* the outcome is the format of the first matching rule, in the order 1, 2,
\* 3 (Cobertura, Clover, JaCoCo), 4
FirstMatchWins(r) ==
    /\ Rule1 => r = "lcov"
    /\ r = "istanbul" <=> (~Rule1 /\ Rule2)
    /\ r = "cobertura" <=> (~Rule1 /\ ~Rule2 /\ XmlContent /\ CoberturaTest)
    /\ r = "clover" <=> (~Rule1 /\ ~Rule2 /\ XmlContent /\ ~CoberturaTest /\ CloverTest)
    /\ r = "jacoco" <=> (~Rule1 /\ ~Rule2 /\ XmlContent /\ ~CoberturaTest /\ ~CloverTest
                         /\ JacocoTest)
    /\ r = "lcov" <=> (Rule1 \/ (~Rule2 /\ ~Rule3 /\ Rule4))
    /\ (~Rule1 /\ ~Rule2 /\ XmlContent /\ Has("<coverage") /\ Has("line-rate")
        /\ Has("clover")) => r = "cobertura"

\* C7 as stated: first match wins in the order 1-4, XML content with
\* <coverage, line-rate and clover is cobertura, and XML content that also
\* contains SF: and DA: is never lcov (by the content rule 4).
C7_Original ==
    detected # None =>
        /\ FirstMatchWins(detected[1])
        /\ (~Rule1 /\ XmlContent /\ Has("SF:") /\ Has("DA:")) => detected[1] # "lcov"

\* C7, amended: first match wins in the order 1-4, XML content with
\* <coverage, line-rate and clover is cobertura, and XML content on which
\* one of the three XML tests succeeds is never lcov by rule 4, also when it
\* contains SF: and DA:.
C7_FirstMatchWins ==
    detected # None =>
        /\ FirstMatchWins(detected[1])
        /\ (~Rule1 /\ Rule3 /\ Has("SF:") /\ Has("DA:")) => detected[1] # "lcov"

\* a content that passes the Clover test and holds SF: and DA: is clover
C7_Witness ==
    /\ detected = Some("clover")
    /\ Has("<project") /\ Has("SF:") /\ Has("DA:")

\* cobertura wins over clover on a content that passes both tests
C7_WitnessOrder ==
    /\ detected = Some("cobertura")
    /\ CoberturaTest /\ CloverTest

\* C8 as stated: only a content that begins with <?xml or, trimmed, starts
\* with < is detected as cobertura, clover or jacoco.
C8_Original ==
    (detected # None /\ detected[1] \in XmlFormats) =>
        (BeginsWithXmlDecl \/ TrimmedStartsWithLt)

\* C8, amended: only a content that contains <?xml (anywhere) or, trimmed,
\* starts with < is detected as cobertura, clover or jacoco; a content that
\* does neither is never detected as one of them, whatever markers it holds.
C8_XmlGate ==
    (detected # None /\ detected[1] \in XmlFormats) =>
        (Has("<?xml") \/ TrimmedStartsWithLt)

\* a content with an XML marker but no <?xml and no leading '<' is not
\* detected as an XML format
C8_Witness ==
    /\ detected # None /\ detected[1] \notin XmlFormats
    /\ ~Has("<?xml") /\ ~TrimmedStartsWithLt
    /\ ~Rule1 /\ ~Rule2
    /\ CoberturaTest \/ CloverTest \/ JacocoTest

C9_WitnessNull ==
    /\ ExtIs(".json") /\ content[1].json.valid /\ content[1].json.value.t = "null"
    /\ detected = Some("throw")

-----------------------------------------------------------------------------
(* Properties of the parsers *)

Parsed == coverage # None /\ coverage[1].ok

\* every Metric of the returned NormalizedCoverage, summary and files alike
ParsedMetrics ==
    LET c == coverage[1].value[1]
    IN  {c.summary[m] : m \in MetricSet}
        \cup {c.files[i][m] : i \in 1..Len(c.files), m \in MetricSet}

\* C5: every Metric a parser returns has percentage = covered / total * 100
\* when total > 0 and percentage = 100 when total = 0.
C5_PercentageOfCounts ==
    Parsed =>
        \A m \in ParsedMetrics :
            /\ m.total > 0 => m.percentage = (m.covered * 10000) \div m.total
            /\ m.total = 0 => m.percentage = 10000

\* C6: every Metric a parser returns has total >= 0 and 0 <= covered <= total,
\* whatever the report contains.
C6_CoveredWithinTotal ==
    Parsed =>
        \A m \in ParsedMetrics : m.total >= 0 /\ 0 <= m.covered /\ m.covered <= m.total

\* the sum of a field of a metric over the returned files
RECURSIVE SumOver(_, _, _)
SumOver(files, metric, field) ==
    IF files = <<>> THEN 0
    ELSE files[1][metric][field] + SumOver(Tail(files), metric, field)

FromClasses(metric) ==
    LET c == coverage[1].value[1]
    IN  /\ c.summary[metric].total = SumOver(c.files, metric, "total")
        /\ c.summary[metric].covered = SumOver(c.files, metric, "covered")

FromRoot(metric, valid, covered) ==
    LET c == coverage[1].value[1]
    IN  /\ c.summary[metric].total = valid[1]
        /\ c.summary[metric].covered = covered[1]

\* C10: when the root coverage element carries lines-valid, lines-covered,
\* branches-valid and branches-covered, the summary's statements, lines and
\* branches take total and covered from them; when they are absent the three
\* are aggregated from the classes; functions is aggregated from the classes
\* in both cases; lines-valid=100, lines-covered=75, line-rate=0.75 gives
\* lines = {100, 75, 75} (here 4, 3 and 0.75).
C10_RootAttributesUsed ==
    (Parsed /\ report[1].parser = "cobertura") =>
        LET root == report[1].data.coverage[1]
            c == coverage[1].value[1]
        IN  /\ (root.linesValid # None /\ root.linesCovered # None
                /\ root.branchesValid # None /\ root.branchesCovered # None) =>
                  /\ FromRoot("statements", root.linesValid, root.linesCovered)
                  /\ FromRoot("lines", root.linesValid, root.linesCovered)
                  /\ FromRoot("branches", root.branchesValid, root.branchesCovered)
            /\ (root.linesValid = None /\ root.linesCovered = None
                /\ root.branchesValid = None /\ root.branchesCovered = None) =>
                  /\ FromClasses("statements")
                  /\ FromClasses("lines")
                  /\ FromClasses("branches")
            /\ FromClasses("functions")
            /\ (root.linesValid = Some(4) /\ root.linesCovered = Some(3)
                /\ root.lineRate = Some(7500)) =>
                  c.summary.lines = [total |-> 4, covered |-> 3, percentage |-> 7500]

-----------------------------------------------------------------------------
(* Properties of IstanbulParser *)

IstanbulParsed == Parsed /\ report[1].parser = "istanbul"

\* the i-th file entry of the Istanbul report and the FileCoverage made of it
IstanbulIn(i) == report[1].data.entries[i].file
IstanbulOut(i) == coverage[1].value[1].files[i]

\* the keys of the location map that the hit-count map gives a count > 0
KeysHit(locs, hits) ==
    {k \in DOMAIN OrEmpty(locs) : k \in DOMAIN OrEmpty(hits) /\ OrEmpty(hits)[k] > 0}

\* the entries of the hit-count map with a count > 0
EntriesHit(hits) == {k \in DOMAIN OrEmpty(hits) : OrEmpty(hits)[k] > 0}

\* C11: per file, statements (and functions, with fnMap and f) has total =
\* the number of entries of the location map and covered = the number of
\* hit-count entries > 0, the two maps being matched by key, so that covered
\* is the number of location-map keys k with a hit count > 0.
C11_StatementsByKey ==
    IstanbulParsed =>
        \A i \in 1..Len(coverage[1].value[1].files) :
            LET in == IstanbulIn(i)
                out == IstanbulOut(i)
            IN  /\ out.statements.total = Cardinality(DOMAIN OrEmpty(in.statementMap))
                /\ out.statements.covered = Cardinality(EntriesHit(in.s))
                /\ out.statements.covered = Cardinality(KeysHit(in.statementMap, in.s))
                /\ out.functions.total = Cardinality(DOMAIN OrEmpty(in.fnMap))
                /\ out.functions.covered = Cardinality(EntriesHit(in.f))
                /\ out.functions.covered = Cardinality(KeysHit(in.fnMap, in.f))

\* the lines some statement of the map spans, all statements or the hit ones
SpannedLines(file, hitOnly) ==
    LET sm == OrEmpty(file.statementMap)
    IN  {l \in 1..(MaxLine + 1) :
            \E k \in DOMAIN sm :
                /\ sm[k].start <= l /\ l <= sm[k].end
                /\ hitOnly => k \in KeysHit(file.statementMap, file.s)}

\* C12: per file, lines.total is the number of distinct lines that some
\* statement's [start.line, end.line] range contains and lines.covered the
\* number of those that some statement with hit count > 0 contains.
C12_LinesFromStatements ==
    IstanbulParsed =>
        \A i \in 1..Len(coverage[1].value[1].files) :
            /\ IstanbulOut(i).lines.total = Cardinality(SpannedLines(IstanbulIn(i), FALSE))
            /\ IstanbulOut(i).lines.covered = Cardinality(SpannedLines(IstanbulIn(i), TRUE))

\* a line spanned by one hit and one unhit statement is counted as covered,
\* and a statement of several lines is counted once per line
C12_Witness ==
    /\ IstanbulParsed
    /\ \E i \in 1..Len(coverage[1].value[1].files) :
           LET sm == OrEmpty(IstanbulIn(i).statementMap)
               hit == KeysHit(IstanbulIn(i).statementMap, IstanbulIn(i).s)
           IN  /\ \E k \in hit, u \in (DOMAIN sm) \ hit :
                      /\ sm[u].start <= sm[k].start /\ sm[k].end <= sm[u].end
                      /\ sm[u].start < sm[u].end
               /\ IstanbulOut(i).lines.covered >= 1
               /\ IstanbulOut(i).lines.covered < IstanbulOut(i).lines.total

-----------------------------------------------------------------------------
(* Properties of LcovParser *)

LcovParsed == Parsed /\ report[1].parser = "lcov"

\* the found/hit kind of a metric
LcovKind(m) == IF m = "statements" THEN "lines" ELSE m

RECURSIVE SumRecords(_, _, _)
SumRecords(data, kind, field) ==
    IF data = <<>> THEN 0
    ELSE Head(data)[kind][field] + SumRecords(Tail(data), kind, field)

\* C13: the LCOV summary's total and covered are the sums over the records
\* of found and hit per metric kind, statements and lines both from the
\* lines counts (identical per file and in the summary); the summary
\* percentage is computed from the summed counts; files has one entry per
\* record.
C13_LcovSummary ==
    LcovParsed =>
        LET data == report[1].data.data[1]
            c == coverage[1].value[1]
        IN  /\ Len(c.files) = Len(data)
            /\ \A i \in 1..Len(data) :
                   /\ c.files[i].path = data[i].file
                   /\ c.files[i].statements = c.files[i].lines
                   /\ \A m \in MetricSet :
                          /\ c.files[i][m].total = data[i][LcovKind(m)].found
                          /\ c.files[i][m].covered = data[i][LcovKind(m)].hit
            /\ c.summary.statements = c.summary.lines
            /\ \A m \in MetricSet :
                   LET total == SumRecords(data, LcovKind(m), "found")
                       covered == SumRecords(data, LcovKind(m), "hit")
                   IN  /\ c.summary[m].total = total
                       /\ c.summary[m].covered = covered
                       /\ c.summary[m].percentage =
                              IF total > 0 THEN (covered * 10000) \div total ELSE 10000

\* two records of 1/2 and 1/1 lines: the summary is 2/3 = 66.66, not the
\* mean 75 of the files' percentages
C13_Witness ==
    /\ LcovParsed
    /\ Len(coverage[1].value[1].files) = 2
    /\ coverage[1].value[1].files[1].lines.percentage = 5000
    /\ coverage[1].value[1].files[2].lines.percentage = 10000
    /\ coverage[1].value[1].summary.lines = [total |-> 3, covered |-> 2, percentage |-> 6666]

-----------------------------------------------------------------------------
(* Properties of CoberturaParser *)

\* the number an attribute states, 0 when it is absent or not a number
AttrOrZero(a) == IF a = None \/ a = Malformed THEN 0 ELSE a[1]

CoberturaParsed == Parsed /\ report[1].parser = "cobertura"

\* the class elements of the report, in document order
RECURSIVE ClassesOf(_)
ClassesOf(packages) ==
    IF packages = <<>> THEN <<>>
    ELSE (IF Head(packages).classes = None THEN <<>> ELSE Head(packages).classes[1])
         \o ClassesOf(Tail(packages))

ReportClasses ==
    LET cov == report[1].data.coverage[1]
    IN  IF cov.packages = None THEN <<>> ELSE ClassesOf(cov.packages[1])

\* the children of an element list that may be absent
ChildrenOf(list) == IF list = None THEN <<>> ELSE list[1]

\* the lines of a class that carry branch="true" and a condition-coverage
\* from which a (covered/total) pair can be extracted
BranchLines(cls) ==
    {j \in 1..Len(ChildrenOf(cls.lines)) :
        /\ ChildrenOf(cls.lines)[j].branch = Some("true")
        /\ ChildrenOf(cls.lines)[j].conditionCoverage # None
        /\ ChildrenOf(cls.lines)[j].conditionCoverage[1].match}

RECURSIVE SumPairs(_, _, _)
SumPairs(lines, idx, field) ==
    IF idx = {} THEN 0
    ELSE LET j == CHOOSE x \in idx : TRUE
         IN  lines[j].conditionCoverage[1][field] + SumPairs(lines, idx \ {j}, field)

\* C14: per class, statements and lines have total = number of line
\* elements and covered = number of those with hits > 0; functions has
\* total = number of method elements and covered = number of methods with
\* line-rate > 0; branches total and covered are the sums of the pairs of
\* the condition-coverage of the lines with branch="true", other lines
\* contributing nothing.
C14_PerClassMetrics ==
    CoberturaParsed =>
        LET c == coverage[1].value[1]
        IN  /\ Len(c.files) = Len(ReportClasses)
            /\ \A i \in 1..Len(ReportClasses) :
                   LET cls == ReportClasses[i]
                       lines == ChildrenOf(cls.lines)
                       methods == ChildrenOf(cls.methods)
                       hitLines == {j \in 1..Len(lines) : AttrOrZero(lines[j].hits) > 0}
                       hitMethods == {j \in 1..Len(methods) :
                                         AttrOrZero(methods[j].lineRate) > 0}
                   IN  /\ c.files[i].path = cls.filename
                       /\ c.files[i].lines.total = Len(lines)
                       /\ c.files[i].lines.covered = Cardinality(hitLines)
                       /\ c.files[i].statements = c.files[i].lines
                       /\ c.files[i].functions.total = Len(methods)
                       /\ c.files[i].functions.covered = Cardinality(hitMethods)
                       /\ c.files[i].branches.total = SumPairs(lines, BranchLines(cls), "total")
                       /\ c.files[i].branches.covered =
                              SumPairs(lines, BranchLines(cls), "covered")

\* a class with a branch="true" line and a branch="false" line that both
\* carry a condition-coverage of (1/2): only the first is counted
C14_Witness ==
    /\ CoberturaParsed
    /\ \E i \in 1..Len(ReportClasses) :
           LET lines == ChildrenOf(ReportClasses[i].lines)
           IN  /\ \E j, k \in 1..Len(lines) :
                      /\ lines[j].branch = Some("true")
                      /\ lines[k].branch = Some("false")
                      /\ lines[j].conditionCoverage # None
                      /\ lines[j].conditionCoverage[1].match
                      /\ lines[k].conditionCoverage # None
                      /\ lines[k].conditionCoverage[1].match
               /\ coverage[1].value[1].files[i].branches.total = 2
               /\ coverage[1].value[1].files[i].branches.covered = 1

-----------------------------------------------------------------------------
(* Properties of CloverParser *)

CloverParsed == Parsed /\ report[1].parser = "clover"

\* the project element the parser reads
ReportProject ==
    LET d == report[1].data
    IN  IF d.coverage # None /\ d.coverage[1].project # None
        THEN d.coverage[1].project[1]
        ELSE d.project[1]

RECURSIVE PackagedFiles(_)
PackagedFiles(packages) ==
    IF packages = <<>> THEN <<>>
    ELSE ChildrenOf(Head(packages).file) \o PackagedFiles(Tail(packages))

\* the file elements of the project: its own, then those of its packages
ReportFiles ==
    ChildrenOf(ReportProject.file) \o PackagedFiles(ChildrenOf(ReportProject.package))

\* the four metrics' [total, covered] that a metrics element states
MetricsCounts(m) ==
    [statements |-> [total |-> AttrOrZero(m.statements),
                     covered |-> AttrOrZero(m.coveredstatements)],
     branches |-> [total |-> AttrOrZero(m.conditionals),
                   covered |-> AttrOrZero(m.coveredconditionals)],
     functions |-> [total |-> AttrOrZero(m.methods),
                    covered |-> AttrOrZero(m.coveredmethods)],
     lines |-> [total |-> AttrOrZero(m.statements),
                covered |-> AttrOrZero(m.coveredstatements)]]

\* the lines of a type, all or only those with count > 0
LinesOfType(lines, type, positive) ==
    {j \in 1..Len(lines) :
        /\ lines[j].type = type
        /\ positive => AttrOrZero(lines[j].count) > 0}

\* the four metrics' [total, covered] counted from raw line elements
LineCounts(lines) ==
    LET conds == LinesOfType(lines, "cond", FALSE)
        arms == Cardinality({j \in conds : AttrOrZero(lines[j].truecount) > 0})
                + Cardinality({j \in conds : AttrOrZero(lines[j].falsecount) > 0})
        stmts == [total |-> Cardinality(LinesOfType(lines, "stmt", FALSE)),
                  covered |-> Cardinality(LinesOfType(lines, "stmt", TRUE))]
    IN  [statements |-> stmts,
         branches |-> [total |-> 2 * Cardinality(conds), covered |-> arms],
         functions |-> [total |-> Cardinality(LinesOfType(lines, "method", FALSE)),
                        covered |-> Cardinality(LinesOfType(lines, "method", TRUE))],
         lines |-> stmts]

\* C15: a Clover file with its own metrics element takes its four metrics
\* from that element and its line elements are ignored; without metrics the
\* line elements are counted: a cond line adds 2 to the branches total and
\* 0, 1 or 2 to covered (truecount > 0, falsecount > 0), stmt lines count
\* statements and method lines functions, covered iff count > 0.
C15_CloverFileRule ==
    CloverParsed =>
        LET c == coverage[1].value[1]
        IN  /\ Len(c.files) = Len(ReportFiles)
            /\ \A i \in 1..Len(ReportFiles) :
                   LET file == ReportFiles[i]
                       counts == IF file.metrics # None THEN MetricsCounts(file.metrics[1])
                                 ELSE LineCounts(ChildrenOf(file.line))
                   IN  \A m \in MetricSet :
                           /\ c.files[i][m].total = counts[m].total
                           /\ c.files[i][m].covered = counts[m].covered

\* a file with a metrics element and line elements that disagree with it,
\* and a file without metrics whose cond line has one arm taken
C15_Witness ==
    /\ CloverParsed
    /\ \E i, k \in 1..Len(ReportFiles) :
           /\ ReportFiles[i].metrics # None /\ ReportFiles[i].line # None
           /\ LineCounts(ReportFiles[i].line[1]).statements
                  # MetricsCounts(ReportFiles[i].metrics[1]).statements
           /\ ReportFiles[k].metrics = None /\ ReportFiles[k].line # None
           /\ coverage[1].value[1].files[k].branches
                  = [total |-> 2, covered |-> 1, percentage |-> 5000]

-----------------------------------------------------------------------------
(* Properties of JacocoParser *)

JacocoParsed == Parsed /\ report[1].parser = "jacoco"

RECURSIVE SourceFilesOf(_)
SourceFilesOf(packages) ==
    IF packages = <<>> THEN <<>>
    ELSE ChildrenOf(Head(packages).sourcefile) \o SourceFilesOf(Tail(packages))

\* the sourcefile elements of the report, in document order
ReportSourceFiles == SourceFilesOf(ChildrenOf(report[1].data.report[1].package))

\* the counter of a type that parseCounters keeps: the last one
LastOfType(counters, type) ==
    LET idx == {j \in 1..Len(counters) : counters[j].type = type}
    IN  IF idx = {} THEN None
        ELSE Some(counters[CHOOSE j \in idx : \A k \in idx : k <= j])

JacocoKind ==
    [statements |-> "INSTRUCTION", branches |-> "BRANCH", lines |-> "LINE",
     functions |-> "METHOD"]

\* the four metrics are those of the counters of their types
FromCounters(metrics, counters) ==
    \A m \in MetricSet :
        LET ctr == LastOfType(counters, JacocoKind[m])
        IN  /\ ctr # None =>
                  /\ metrics[m].total = AttrOrZero(ctr[1].missed) + AttrOrZero(ctr[1].covered)
                  /\ metrics[m].covered = AttrOrZero(ctr[1].covered)
            /\ ctr = None => metrics[m].total = 0 /\ metrics[m].covered = 0

\* C16: the Clover summary is the project-level metrics element when it is
\* present and the JaCoCo summary the report's own counter elements when
\* present; only without that aggregate is the summary the sum of total and
\* of covered of the per-file metrics, per metric kind.
C16_SummaryPrefersAggregate ==
    /\ CloverParsed =>
           LET c == coverage[1].value[1]
           IN  \A m \in MetricSet :
                   IF ReportProject.metrics # None
                   THEN /\ c.summary[m].total = MetricsCounts(ReportProject.metrics[1])[m].total
                        /\ c.summary[m].covered =
                               MetricsCounts(ReportProject.metrics[1])[m].covered
                   ELSE /\ c.summary[m].total = SumOver(c.files, m, "total")
                        /\ c.summary[m].covered = SumOver(c.files, m, "covered")
    /\ JacocoParsed =>
           LET c == coverage[1].value[1]
               rep == report[1].data.report[1]
           IN  IF rep.counter # None
               THEN FromCounters(c.summary, rep.counter[1])
               ELSE \A m \in MetricSet :
                        /\ c.summary[m].total = SumOver(c.files, m, "total")
                        /\ c.summary[m].covered = SumOver(c.files, m, "covered")

\* a Clover project whose metrics element (10 statements) disagrees with
\* the sum over its files
C16_Witness ==
    /\ CloverParsed
    /\ ReportProject.metrics # None
    /\ Len(coverage[1].value[1].files) = 2
    /\ coverage[1].value[1].summary.statements.total = 10
    /\ SumOver(coverage[1].value[1].files, "statements", "total") # 10

\* a JaCoCo report whose counters disagree with the sum over its files
C16_WitnessJacoco ==
    /\ JacocoParsed
    /\ report[1].data.report[1].counter # None
    /\ Len(coverage[1].value[1].files) >= 1
    /\ coverage[1].value[1].summary.lines.total
           # SumOver(coverage[1].value[1].files, "lines", "total")

\* C17: for a report or sourcefile that carries counters, statements is the
\* INSTRUCTION counter, branches BRANCH, lines LINE and functions METHOD,
\* each with total = missed + covered and covered = covered; COMPLEXITY
\* and CLASS counters influence none of the four.
C17_CounterMapping ==
    JacocoParsed =>
        LET c == coverage[1].value[1]
            rep == report[1].data.report[1]
        IN  /\ rep.counter # None => FromCounters(c.summary, rep.counter[1])
            /\ Len(c.files) = Len(ReportSourceFiles)
            /\ \A i \in 1..Len(ReportSourceFiles) :
                   ReportSourceFiles[i].counter # None =>
                       FromCounters(c.files[i], ReportSourceFiles[i].counter[1])

\* a sourcefile with an INSTRUCTION counter and a COMPLEXITY counter of
\* different totals
C17_Witness ==
    /\ JacocoParsed
    /\ \E i \in 1..Len(ReportSourceFiles) :
           /\ ReportSourceFiles[i].counter # None
           /\ LET ctrs == ReportSourceFiles[i].counter[1]
              IN  \E a, b \in 1..Len(ctrs) :
                      /\ ctrs[a].type = "INSTRUCTION" /\ ctrs[b].type = "COMPLEXITY"
                      /\ ctrs[a].missed = Some(1) /\ ctrs[a].covered = Some(2)
                      /\ ctrs[b].missed = Some(0) /\ ctrs[b].covered = Some(0)
           /\ coverage[1].value[1].files[i].statements
                  = [total |-> 3, covered |-> 2, percentage |-> 6666]

-----------------------------------------------------------------------------
(* Failures of the parsers *)

ParseDone == report # None /\ coverage # None

\* the parser failed with the message, and returned no coverage value
FailedWith(msg) ==
    ~coverage[1].ok /\ coverage[1].error = msg /\ coverage[1].value = None

\* the LCOV reader reported no error and handed over no record
LcovNoRecords ==
    /\ report[1].parser = "lcov"
    /\ report[1].data.err = None
    /\ report[1].data.data = None \/ report[1].data.data[1] = <<>>

\* the Istanbul document is JSON whose top-level mapping has no entry
IstanbulNoEntries ==
    /\ report[1].parser = "istanbul"
    /\ report[1].data.syntaxOk
    /\ report[1].data.entries = <<>>

\* C18: LCOV input with zero parsed records and Istanbul input whose
\* top-level mapping has zero entries make parse fail for want of data;
\* neither parser returns a success with an empty files list.
C18_EmptyLcovIstanbulFail ==
    ParseDone =>
        /\ LcovNoRecords => FailedWith("LCOV file contains no coverage data")
        /\ IstanbulNoEntries => FailedWith("Istanbul coverage file contains no data")
        /\ (report[1].parser \in {"lcov", "istanbul"} /\ coverage[1].ok) =>
               Len(coverage[1].value[1].files) >= 1

\* the LCOV reader handed over an empty record list and parse failed
C18_Witness ==
    /\ ParseDone /\ LcovNoRecords
    /\ report[1].data.data = Some(<<>>)
    /\ ~coverage[1].ok

\* an Istanbul document {} and parse failed
C18_WitnessIstanbul == ParseDone /\ IstanbulNoEntries /\ ~coverage[1].ok

\* C19: for each of the five formats, input that is structurally valid but
\* yields zero files makes parsing fail: no parser returns a successful
\* NormalizedCoverage whose files list is empty.
C19_NoEmptySuccess ==
    (ParseDone /\ coverage[1].ok) => Len(coverage[1].value[1].files) >= 1

\* the Cobertura document has no root coverage element
CoberturaNoRoot ==
    /\ report[1].parser = "cobertura"
    /\ report[1].data.syntaxOk
    /\ report[1].data.coverage = None

\* the Clover document has neither coverage/project nor a bare project
CloverNoProject ==
    /\ report[1].parser = "clover"
    /\ report[1].data.syntaxOk
    /\ report[1].data.coverage = None \/ report[1].data.coverage[1].project = None
    /\ report[1].data.project = None

\* C20: the Cobertura parser fails with its invalid-format error, returning
\* no coverage, exactly when there is no root coverage element, and the
\* Clover parser exactly when there is neither coverage/project nor a bare
\* project (a coverage element without project included).
C20_MissingRootFails ==
    ParseDone =>
        /\ CoberturaNoRoot <=> FailedWith("Invalid Cobertura format: missing coverage element")
        /\ CloverNoProject <=> FailedWith("Invalid Clover format: missing project element")

\* a Clover document whose coverage element has no project child
C20_Witness ==
    /\ ParseDone /\ CloverNoProject
    /\ report[1].data.coverage # None
    /\ FailedWith("Invalid Clover format: missing project element")

\* a Cobertura document without coverage element
C20_WitnessCobertura ==
    /\ ParseDone /\ CoberturaNoRoot
    /\ FailedWith("Invalid Cobertura format: missing coverage element")

-----------------------------------------------------------------------------
(* Malformed numbers *)

\* some element of the sequence has a field among fs that is not a number
AnyMalformed(elems, fs) ==
    \E j \in 1..Len(elems) : \E f \in fs : elems[j][f] = Malformed

\* a numeric attribute the parser reads is present but is not a number
MalformedCobertura ==
    /\ report[1].parser = "cobertura"
    /\ report[1].data.syntaxOk /\ report[1].data.coverage # None
    /\ \E i \in 1..Len(ReportClasses) :
           \/ AnyMalformed(ChildrenOf(ReportClasses[i].lines), {"hits"})
           \/ AnyMalformed(ChildrenOf(ReportClasses[i].methods), {"lineRate"})

MalformedClover ==
    /\ report[1].parser = "clover"
    /\ report[1].data.syntaxOk /\ CloverProject(report[1].data) # None
    /\ \E i \in 1..Len(ReportFiles) :
           /\ ReportFiles[i].metrics = None
           /\ AnyMalformed(ChildrenOf(ReportFiles[i].line), {"count"})

MalformedJacoco ==
    /\ report[1].parser = "jacoco"
    /\ report[1].data.syntaxOk /\ report[1].data.report # None
    /\ \/ AnyMalformed(ChildrenOf(report[1].data.report[1].counter), {"missed", "covered"})
       \/ \E i \in 1..Len(ReportSourceFiles) :
              \/ AnyMalformed(ChildrenOf(ReportSourceFiles[i].counter), {"missed", "covered"})
              \/ /\ ReportSourceFiles[i].counter = None
                 /\ AnyMalformed(ChildrenOf(ReportSourceFiles[i].line),
                                 {"mi", "ci", "mb", "cb"})

\* C21: when a numeric attribute a parser reads is present but not a valid
\* number, the parse fails; no successful result has 0 standing in for it.
C21_MalformedNumberFails ==
    (ParseDone /\ (MalformedCobertura \/ MalformedClover \/ MalformedJacoco)) =>
        ~coverage[1].ok

-----------------------------------------------------------------------------
(* Properties of a workflow run *)

\* the run has reached process.exit at the end of the try block
ReachedEnd == run # None /\ run[1].pc = "exited" /\ ~run[1].threw

\* C24: shouldFail is true exactly when failOnRegression is set and the
\* overall status is 'regressed'; a run that reaches the end of the pipeline
\* without an error exits with 1 exactly then and with 0 otherwise, and its
\* output 'result' is 'fail' exactly when the overall status is 'regressed',
\* 'improved' exactly when it is 'improved', and 'pass' in every other case.
C24_FailAndResult ==
    run # None /\ comparison # None =>
        LET st == comparison[1].overallStatus
            fails == run[1].inputs.failOnRegression /\ st = "regressed"
        IN  /\ shouldFail(comparison[1], run[1].inputs) <=> fails
            /\ ReachedEnd =>
                 /\ run[1].exitCode = Some(IF fails THEN 1 ELSE 0)
                 /\ run[1].outputs # None
                 /\ run[1].outputs[1].result = "fail" <=> st = "regressed"
                 /\ run[1].outputs[1].result = "improved" <=> st = "improved"
                 /\ run[1].outputs[1].result = "pass" <=> st \notin {"regressed", "improved"}

\* a regression with failOnRegression off: 'fail' is reported, the exit code is 0
C24_Witness ==
    /\ ReachedEnd
    /\ ~run[1].inputs.failOnRegression
    /\ comparison[1].overallStatus = "regressed"
    /\ run[1].outputs[1].result = "fail"
    /\ run[1].exitCode = Some(0)

\* a regression with failOnRegression on: exit code 1
C24_WitnessFail ==
    /\ ReachedEnd
    /\ run[1].inputs.failOnRegression
    /\ comparison[1].overallStatus = "regressed"
    /\ run[1].exitCode = Some(1)

\* downloadBaseline returned without a parsed coverage
NoBaselineCoverage ==
    run # None /\ run[1].download \in {"noFiles", "notFound", "parseFailed"}

\* C25: when downloadBaseline returns no parsed coverage (no baseline files, no
\* known coverage file among the downloads, or a baseline parse that threw),
\* the run fails with 'Failed to parse baseline coverage' and exit code 1, and
\* in that run nothing is compared, no report is written, nothing is sent to
\* the upload API, and neither a step summary nor a PR comment is produced.
C25_NoBaselineFails ==
    NoBaselineCoverage =>
        /\ run[1].pc = "exited"
        /\ run[1].failed = Some("Failed to parse baseline coverage")
        /\ run[1].exitCode = Some(1)
        /\ comparison = None /\ ~run[1].compared
        /\ ~run[1].reportWritten
        /\ upload[1].pc = "idle" /\ upload[1].requests = <<>>
        /\ run[1].outputs = None
        /\ ~run[1].summaryWritten
        /\ pr[1].calls = <<>>

\* the baseline parse threw in a run with upload, summary and comment enabled
C25_Witness ==
    /\ run # None /\ run[1].download = "parseFailed" /\ run[1].pc = "exited"
    /\ run[1].inputs = AllOn
    /\ pr[1].prNumber /\ pr[1].token = "app"

\* C26 (as the specification states it): when the process of a run ends and
\* downloadBaseline had created the temporary directory, the directory has
\* been removed.
C26_TempDirRemoved ==
    run # None /\ run[1].pc = "exited" /\ run[1].tempDir # "none" =>
        run[1].tempDir = "removed"

\* one of the three upload steps failed
UploadStepFailed ==
    \/ upload[1].prepare \in {"throws", "invalid", "noUrl"}
    \/ upload[1].file \in {"throws", "failed"}
    \/ upload[1].finalize = "throws"

IsPrefix(s, t) == Len(s) <= Len(t) /\ s = SubSeq(t, 1, Len(s))

\* C27: the requests of uploadResults are a prefix of prepare-batch-upload,
\* upload, finalize; the file is uploaded only after a prepare response with
\* presigned URLs, token and URL for the file; finalize is sent only after an
\* upload without failures; uploadUrl is set only after finalize returned;
\* and a failed step ends with a warning and without uploadUrl while the run
\* goes on to its outputs, so that no run fails because of the upload.
C27_UploadProtocol ==
    upload # None =>
        LET u == upload[1]
        IN  /\ IsPrefix(u.requests, <<"prepare-batch-upload", "upload", "finalize">>)
            /\ Len(u.requests) >= 2 => u.prepare = "ok"
            /\ Len(u.requests) = 3 => u.file = "ok"
            /\ u.uploadUrl # None => Len(u.requests) = 3 /\ u.finalize = "ok"
            /\ u.pc \in {"prepare", "file", "finalize"} => run[1].pc = "upload"
            /\ u.pc = "returned" /\ UploadStepFailed =>
                 /\ u.warning = "Failed to upload coverage"
                 /\ u.uploadUrl = None
                 /\ run[1].pc # "upload"
                 /\ run[1].pc = "outputs" => ~run[1].threw /\ run[1].exitCode = None
            /\ run[1].threw /\ u.requests # <<>> =>
                 run[1].failed \in {Some("generateSummary"), Some("listComments"),
                                    Some("updateComment"), Some("createComment")}

\* the file upload reported a failure, and the run ended with exit code 0
C27_Witness ==
    /\ upload # None /\ upload[1].file = "failed"
    /\ upload[1].requests = <<"prepare-batch-upload", "upload">>
    /\ ReachedEnd /\ run[1].exitCode = Some(0)
    /\ run[1].outputs[1].uploadUrl = None

\* all three steps succeeded
C27_WitnessFinalized ==
    /\ upload # None /\ upload[1].uploadUrl # None
    /\ ReachedEnd

\* the comments that this action created on the pull request
OwnComments == {i \in 1..Len(pr[1].comments) : pr[1].comments[i].own}

\* C28 (as the specification states it): after any sequence of runs on the
\* same pull request with the same header, at most one comment created by the
\* action exists on the pull request.
C28_AtMostOneComment ==
    pr # None => Cardinality(OwnComments) <= 1

\* C29: when detectFormat returns a format, the detect method of the parser
\* registered for that format returns true for the same content and filename.
C29_DetectorAgreesWithParser ==
    detected # None /\ detected[1] # "throw" =>
        ParsersDetect(detected[1], content[1], filename[1])

\* Cobertura detected by content in a file that is not named .xml
C29_Witness ==
    /\ detected = Some("cobertura")
    /\ ~EndsWith(ToLowerCase(filename[1]), ".xml")
    /\ ParsersDetect("cobertura", content[1], filename[1])

\* Istanbul detected for a .json file
C29_WitnessIstanbul ==
    /\ detected = Some("istanbul")
    /\ ParsersDetect("istanbul", content[1], filename[1])

====
